---- MODULE Spec2Model ----
(***************************************************************************)
(* Model of the lifelogs API: the import pipeline (JSON import, CSV import *)
(* and CSV preview), the timestamp normalizer, the CSV line parser, the    *)
(* event store routes (create, list, get, update, delete, types) and the   *)
(* schema registry routes (list, get, create, update, delete).             *)
(*                                                                         *)
(* Representation.                                                         *)
(*  - A JavaScript string is a sequence of one-character strings; S("ab")  *)
(*    is <<"a", "b">>.                                                     *)
(*  - A JavaScript number is an integer kept as a pair <<hi, lo>> that     *)
(*    stands for hi * Base + lo with 0 <= lo < Base (Base = 10^6), because *)
(*    epoch milliseconds and the 10,000,000,000 threshold do not fit the   *)
(*    32-bit integers of the model checker.                                *)
(*  - A JavaScript value is a record tagged by t (typeof-like):            *)
(*    "undefined", "null", "number" (n), "string" (s), "boolean" (b),      *)
(*    "array" (a), "object" (o: a sequence of <<key, value>> entries).     *)
(*  - A database row of the events table is a record whose TEXT columns    *)
(*    hold strings (or SqlNull) and whose INTEGER columns hold numbers.    *)
(***************************************************************************)
EXTENDS Integers, Sequences, FiniteSets, TLC

VARIABLES
    events,     \* the rows of the events table
    nextId,     \* number of ids handed out by ulid() and crypto.randomUUID() so far
    clock,      \* the tick Date.now() currently reads
    schemas,    \* the rows of the event_schemas table
    req,        \* the request being served (or last served)
    resp,       \* the response to req, NoResp while it is pending
    sessions,   \* the rows of the auth_sessions table
    tokens,     \* the rows of the auth_verification_tokens table
    calls,      \* the handler invocations in flight: call id -> position and locals
    users       \* the rows of the auth_users table

vars == <<events, nextId, clock, schemas, req, resp, sessions, tokens, calls, users>>

\* LET x == value IN Body(x), the value being computed once.
Let(value, Body(_)) == CHOOSE r \in {Body(x) : x \in {value}} : TRUE

----------------------------------------------------------------------------
(* Strings *)

S(str) == [i \in 1..Len(str) |-> SubSeq(str, i, i)]

RECURSIVE Join(_, _)
Join(seqs, sep) ==
    IF seqs = <<>> THEN <<>>
    ELSE IF Len(seqs) = 1 THEN seqs[1]
    ELSE seqs[1] \o sep \o Join(Tail(seqs), sep)

\* White space as String.prototype.trim sees it (the characters used here).
IsSpace(ch) == ch \in {" ", "\t", "\n", "\r"}

RECURSIVE TrimStart(_)
TrimStart(s) ==
    IF s # <<>> /\ IsSpace(Head(s)) THEN TrimStart(Tail(s)) ELSE s

RECURSIVE TrimEnd(_)
TrimEnd(s) ==
    IF s # <<>> /\ IsSpace(s[Len(s)]) THEN TrimEnd(SubSeq(s, 1, Len(s) - 1)) ELSE s

\* String.prototype.trim
Trim(s) == TrimEnd(TrimStart(s))

\* String.prototype.split(sep) for a one-character separator: always at least
\* one piece.
Split(s, sep) ==
    LET at == {i \in 1..Len(s) : s[i] = sep}
        \* the index of the k-th separator; 0 before the first piece and
        \* Len(s) + 1 after the last
        cut(k) == IF k = 0 THEN 0
                  ELSE IF k > Cardinality(at) THEN Len(s) + 1
                  ELSE CHOOSE i \in at : Cardinality({j \in at : j < i}) = k - 1
    IN  [k \in 1..(Cardinality(at) + 1) |-> SubSeq(s, cut(k - 1) + 1, cut(k) - 1)]
SplitLines(s) == Split(s, "\n")

\* Array.prototype.indexOf, 0-based, -1 when absent.
IndexOf(seq, x) ==
    IF \E i \in 1..Len(seq) : seq[i] = x
    THEN (CHOOSE i \in 1..Len(seq) : seq[i] = x /\ \A j \in 1..(i - 1) : seq[j] # x) - 1
    ELSE -1

\* Array.prototype.includes
Includes(seq, x) == \E i \in 1..Len(seq) : seq[i] = x

----------------------------------------------------------------------------
(* Numbers *)

Base == 1000 * 1000

Num(hi, lo) == <<hi, lo>>
Small(n) == <<0, n>>

NumLt(a, b) == a[1] < b[1] \/ (a[1] = b[1] /\ a[2] < b[2])
NumLe(a, b) == a = b \/ NumLt(a, b)

\* a + b
NumAdd(a, b) ==
    LET low == a[2] + b[2]
    IN  <<a[1] + b[1] + (low \div Base), low % Base>>

\* a * 1000
Times1000(a) ==
    LET low == a[2] * 1000
    IN  <<a[1] * 1000 + (low \div Base), low % Base>>

----------------------------------------------------------------------------
(* JavaScript values *)

Undefined == [t |-> "undefined"]
JsNull == [t |-> "null"]
JsNum(n) == [t |-> "number", n |-> n]
JsStr(s) == [t |-> "string", s |-> s]
JsBool(b) == [t |-> "boolean", b |-> b]
JsArr(a) == [t |-> "array", a |-> a]
JsObj(o) == [t |-> "object", o |-> o]

\* ToBoolean, as used by `x ? a : b` and `if (x)`.
Truthy(v) ==
    CASE v.t = "undefined" -> FALSE
      [] v.t = "null" -> FALSE
      [] v.t = "boolean" -> v.b
      [] v.t = "number" -> v.n # Small(0)
      [] v.t = "string" -> v.s # <<>>
      [] OTHER -> TRUE

\* values[idx] on an array of strings: undefined outside the array.
At(values, idx) ==
    IF idx >= 0 /\ idx < Len(values) THEN JsStr(values[idx + 1]) ELSE Undefined

----------------------------------------------------------------------------
(* Timestamp normalizer *)

\* The instant new Date(s).getTime() yields for the strings used as inputs,
\* "NaN" for an Invalid Date.  Only strings whose parse is fixed by the
\* language's date-time string format, or that hold no digit at all, are used:
\* a date YYYY-MM-DD, and four digits, which that format reads as the year
\* YYYY (1700-01-01T00:00:00Z is 98,615 days before the epoch).
IsoDate == S("2024-01-01")
IsoDateMs == Num(1704067, 200000)
IsoYear == S("1700")
IsoYearMs == Num(-8520336, 0)

NaN == [t |-> "NaN"]

DateGetTime(v) ==
    IF v.t = "string" /\ v.s = IsoDate THEN JsNum(IsoDateMs)
    ELSE IF v.t = "string" /\ v.s = IsoYear THEN JsNum(IsoYearMs)
    ELSE NaN

SecondsLimit == Num(10000, 0)

Returned(v) == [ok |-> TRUE, value |-> v]
Thrown(msg) == [ok |-> FALSE, message |-> msg]

parseTimestamp_inclusive(value) ==
    IF value.t = "number"
    THEN IF NumLe(value.n, SecondsLimit)
         THEN Returned(Times1000(value.n))
         ELSE Returned(value.n)
    ELSE IF DateGetTime(value) # NaN
         THEN Returned(DateGetTime(value).n)
         ELSE Thrown("Invalid timestamp")

parseTimestamp(value) ==
    IF value.t = "number"
    THEN IF NumLt(value.n, SecondsLimit)
         THEN Returned(Times1000(value.n))
         ELSE Returned(value.n)
    ELSE IF DateGetTime(value) # NaN
         THEN Returned(DateGetTime(value).n)
         ELSE Thrown("Invalid timestamp")

----------------------------------------------------------------------------
(* CSV line parser *)

RECURSIVE ParseFrom(_, _, _, _, _)
ParseFrom(line, i, current, inQuotes, result) ==
    IF i > Len(line) THEN Append(result, Trim(current))
    ELSE IF line[i] = "\""
         THEN IF inQuotes /\ i + 1 <= Len(line) /\ line[i + 1] = "\""
              THEN ParseFrom(line, i + 2, Append(current, "\""), inQuotes, result)
              ELSE ParseFrom(line, i + 1, current, ~inQuotes, result)
    ELSE IF line[i] = "," /\ ~inQuotes
         THEN ParseFrom(line, i + 1, <<>>, inQuotes, Append(result, Trim(current)))
    ELSE ParseFrom(line, i + 1, Append(current, line[i]), inQuotes, result)

parseCSVLine_everyComma(line) ==
    Let(Split(line, ","), LAMBDA pieces : [k \in 1..Len(pieces) |-> Trim(pieces[k])])
parseCSVLine(line) == Let(line, LAMBDA l : ParseFrom(l, 1, <<>>, FALSE, <<>>))

----------------------------------------------------------------------------
(* JSON text *)

Digits == S("0123456789")

RECURSIVE NatText(_)
NatText(n) ==
    IF n < 10 THEN <<Digits[n + 1]>> ELSE NatText(n \div 10) \o <<Digits[(n % 10) + 1]>>

RECURSIVE QuoteChars(_)
QuoteChars(s) ==
    IF s = <<>> THEN <<>>
    ELSE IF Head(s) \in {"\"", "\\"} THEN <<"\\", Head(s)>> \o QuoteChars(Tail(s))
    ELSE <<Head(s)>> \o QuoteChars(Tail(s))

QuoteText(s) == <<"\"">> \o QuoteChars(s) \o <<"\"">>

\* JSON.stringify of the values that occur: small non-negative numbers,
\* strings, booleans, null, arrays and objects of those.
RECURSIVE Stringify(_)
Stringify(v) ==
    CASE v.t = "null" -> S("null")
      [] v.t = "boolean" -> IF v.b THEN S("true") ELSE S("false")
      [] v.t = "number" -> NatText(v.n[2])
      [] v.t = "string" -> QuoteText(v.s)
      [] v.t = "array" ->
            S("[") \o Join([i \in 1..Len(v.a) |-> Stringify(v.a[i])], S(",")) \o S("]")
      [] v.t = "object" ->
            S("{")
            \o Join([i \in 1..Len(v.o) |->
                        QuoteText(v.o[i][1]) \o S(":") \o Stringify(v.o[i][2])], S(","))
            \o S("}")

\* The JSON values whose text JSON.parse is given in this model.
ObjEmpty == JsObj(<<>>)
ObjK == JsObj(<< <<S("k"), JsNum(Small(1))>> >>)
ObjKJ == JsObj(<< <<S("k"), JsNum(Small(1))>>, <<S("j"), JsNum(Small(2))>> >>)
ObjJ == JsObj(<< <<S("j"), JsNum(Small(2))>> >>)
FieldN ==
    JsObj(<< <<S("name"), JsStr(S("n"))>>, <<S("label"), JsStr(S("N"))>>,
             <<S("type"), JsStr(S("number"))>> >>)
FieldS ==
    JsObj(<< <<S("name"), JsStr(S("s"))>>, <<S("label"), JsStr(S("S"))>>,
             <<S("type"), JsStr(S("string"))>>, <<S("required"), JsBool(TRUE)>> >>)
FieldLists == {<<FieldN>>, <<FieldS>>, <<FieldN, FieldS>>}
TagSets ==
    { <<>>, <<S("am")>>, <<S("Am")>>, <<S("h")>>, <<S("am"), S("h")>>,
      <<S("h"), S("h")>>, <<S("ab")>> }
JsonValues ==
    {ObjEmpty, ObjK, ObjKJ, ObjJ}
    \cup {JsArr([i \in 1..Len(ts) |-> JsStr(ts[i])]) : ts \in TagSets}
    \cup {JsNum(Small(0)), JsNum(Small(5)), JsStr(S("s")), JsBool(TRUE), JsNull}
    \cup {JsArr(fs) : fs \in FieldLists}

JsonTexts == {Stringify(v) : v \in JsonValues}
ValueOfText == [text \in JsonTexts |-> CHOOSE v \in JsonValues : Stringify(v) = text]

\* JSON.parse: the value whose text it is given; any other text used as an
\* input is not JSON at all and makes it throw a SyntaxError.
JSONParse(text) ==
    IF text \in JsonTexts THEN Returned(ValueOfText[text]) ELSE Thrown("SyntaxError")

----------------------------------------------------------------------------
(* The events table *)

Users == {"u1", "u2"}

SqlNull == <<"NULL">>

\* Date.now(): epoch milliseconds at the current tick.
Now == Num(1700000, clock)

\* The persistence collaborator during one request: reachable throughout, or
\* unreachable once it has served a number of the request's statements.
Reachable == [up |-> TRUE]
FailsAfter(k) == [up |-> FALSE, served |-> k]
Up(reach, served) == reach.up \/ served < reach.served

\* INSERT INTO events (...) VALUES (?, ?, ?, ?, ?, ?, ?, ?) with its bound
\* parameters.  D1 refuses to bind undefined and the statement throws; run()
\* throws as well when the database cannot be reached.
InsertEvent(db, id, user, timestamp, eventType, data, tags, source, createdAt, up) ==
    IF eventType.t = "undefined"
    THEN Thrown("D1_TYPE_ERROR")
    ELSE IF ~up
    THEN Thrown("D1_ERROR")
    ELSE Returned(db \cup {[id |-> id, user_id |-> user, timestamp |-> timestamp,
                            event_type |-> eventType.s, data |-> data, tags |-> tags,
                            source |-> source, created_at |-> createdAt]})

\* x ? JSON.stringify(x) : null
StringifyOrNull(v) == IF Truthy(v) THEN Stringify(v) ELSE SqlNull

----------------------------------------------------------------------------
(* JSON import *)

IsStringArray(v) == v.t = "array" /\ \A i \in 1..Len(v.a) : v.a[i].t = "string"

\* eventImportSchema.safeParse: whether the record has the shape.
eventImportSchema(e) ==
    /\ e.timestamp.t \in {"string", "number"}
    /\ e.event_type.t = "string" /\ Len(e.event_type.s) >= 1
    /\ e.data.t \in {"undefined", "object"}
    /\ e.tags.t = "undefined" \/ IsStringArray(e.tags)

\* z.object strips the keys it does not name.
StripEvent(e) ==
    [timestamp |-> e.timestamp, event_type |-> e.event_type, data |-> e.data, tags |-> e.tags]

jsonImportSchema_listOnly(body) == body.events.t = "array"
jsonImportSchema(body) ==
    /\ body.events.t = "array"
    /\ \A i \in 1..Len(body.events.a) : eventImportSchema(body.events.a[i])

ErrorEntry(label, ref, message) == [label |-> label, ref |-> ref, message |-> message]

\* `Event ${i}: ...`
JsonErrorRef(i) == i

JsonSource_default == S("manual")
JsonSource == S("json_import")

\* The loop of POST /json from index i on: st = [db, ids, success, errors,
\* served], served counting the statements the request has run.
RECURSIVE JsonLoop(_, _, _, _, _, _)
JsonLoop(evs, i, user, now, reach, st) ==
    IF i >= Len(evs) THEN st
    ELSE
      LET event == evs[i + 1]
          eventId == st.ids
          ts == parseTimestamp(event.timestamp)
          ins == InsertEvent(st.db, eventId, user, ts.value, event.event_type,
                             StringifyOrNull(event.data), StringifyOrNull(event.tags),
                             JsonSource, now, Up(reach, st.served))
          failed(msg) == [st EXCEPT !.ids = @ + 1,
                                    !.errors = Append(@, ErrorEntry("Event", JsonErrorRef(i), msg))]
      IN  IF ~ts.ok THEN JsonLoop(evs, i + 1, user, now, reach, failed(ts.message))
          ELSE IF ~ins.ok
          THEN JsonLoop(evs, i + 1, user, now, reach,
                        [failed(ins.message) EXCEPT !.served = @ + 1])
          ELSE JsonLoop(evs, i + 1, user, now, reach,
                        [st EXCEPT !.ids = @ + 1, !.db = ins.value, !.success = @ + 1,
                                   !.served = @ + 1])

\* POST /api/import/json
importJson(user, body, db, ids, now, reach) ==
    IF ~jsonImportSchema(body)
    THEN [db |-> db, ids |-> ids,
          response |-> [op |-> "import_json", status |-> 400, error |-> "ZodError"]]
    ELSE
      LET evs == [i \in 1..Len(body.events.a) |-> StripEvent(body.events.a[i])]
          st == JsonLoop(evs, 0, user, now, reach,
                         [db |-> db, ids |-> ids, success |-> 0, errors |-> <<>>,
                          served |-> 0])
      IN  [db |-> st.db, ids |-> st.ids,
           response |-> [op |-> "import_json", status |-> 200, imported |-> st.success,
                         total |-> Len(evs), errors |-> st.errors]]

----------------------------------------------------------------------------
(* CSV import *)

requiredColumns_timestampOnly == <<S("timestamp")>>
requiredColumns == <<S("timestamp"), S("event_type")>>

ColumnIdx(header) ==
    [timestampIdx |-> IndexOf(header, S("timestamp")),
     eventTypeIdx |-> IndexOf(header, S("event_type")),
     dataIdx |-> IndexOf(header, S("data")),
     tagsIdx |-> IndexOf(header, S("tags"))]

\* A data / tags cell of POST /csv: null unless the column exists and the cell
\* is non-empty, then JSON.parse of it.
CsvCell(values, idx, column) ==
    IF idx # -1 /\ Truthy(At(values, idx))
    THEN LET p == JSONParse(At(values, idx).s)
         IN  IF p.ok THEN p ELSE Thrown("Invalid JSON in " \o column \o " column")
    ELSE Returned(JsNull)

CsvSource == S("csv_import")

\* The try block of POST /csv for one non-blank line: the grown table, or the
\* message of what was thrown.
CsvRow(line, idx, user, now, db, eventId, up) ==
    Let(parseCSVLine(line), LAMBDA values :
        LET ts == parseTimestamp(At(values, idx.timestampIdx))
            eventType == At(values, idx.eventTypeIdx)
            data == CsvCell(values, idx.dataIdx, "data")
            tags == CsvCell(values, idx.tagsIdx, "tags")
        IN  IF ~ts.ok THEN ts
            ELSE IF ~data.ok THEN data
            ELSE IF ~tags.ok THEN tags
            ELSE InsertEvent(db, eventId, user, ts.value, eventType,
                             StringifyOrNull(data.value), StringifyOrNull(tags.value),
                             CsvSource, now, up))

\* The loop of POST /csv from index i on: st = [db, ids, success, errors,
\* served].  A row reaches its statement when its cells have been read.
RECURSIVE CsvLoop_stopAtError(_, _, _, _, _, _, _)
CsvLoop_stopAtError(lines, i, idx, user, now, reach, st0) ==
    IF i >= Len(lines) THEN st0
    ELSE
      Let(<<st0, Trim(lines[i + 1])>>, LAMBDA bound :
        LET st == bound[1]
            line == bound[2]
        IN  IF line = <<>> THEN CsvLoop_stopAtError(lines, i + 1, idx, user, now, reach, st)
            ELSE
      Let(CsvRow(line, idx, user, now, st.db, st.ids, Up(reach, st.served)), LAMBDA row :
        LET ran == IF row.ok \/ row.message = "D1_ERROR" THEN 1 ELSE 0
        IN  IF row.ok
            THEN CsvLoop_stopAtError(lines, i + 1, idx, user, now, reach,
                         [st EXCEPT !.ids = @ + 1, !.db = row.value, !.success = @ + 1,
                                    !.served = @ + 1])
            ELSE [st EXCEPT !.ids = @ + 1, !.served = @ + ran,
                            !.errors = Append(@, ErrorEntry("Line", i + 1, row.message))]))

RECURSIVE CsvLoop(_, _, _, _, _, _, _)
CsvLoop(lines, i, idx, user, now, reach, st0) ==
    IF i >= Len(lines) THEN st0
    ELSE
      Let(<<st0, Trim(lines[i + 1])>>, LAMBDA bound :
        LET st == bound[1]
            line == bound[2]
        IN  IF line = <<>> THEN CsvLoop(lines, i + 1, idx, user, now, reach, st)
            ELSE
      Let(CsvRow(line, idx, user, now, st.db, st.ids, Up(reach, st.served)), LAMBDA row :
        LET ran == IF row.ok \/ row.message = "D1_ERROR" THEN 1 ELSE 0
        IN  IF row.ok
            THEN CsvLoop(lines, i + 1, idx, user, now, reach,
                         [st EXCEPT !.ids = @ + 1, !.db = row.value, !.success = @ + 1,
                                    !.served = @ + 1])
            ELSE CsvLoop(lines, i + 1, idx, user, now, reach,
                         [st EXCEPT !.ids = @ + 1, !.served = @ + ran,
                                    !.errors = Append(@, ErrorEntry("Line", i + 1, row.message))])))

\* POST /api/import/csv
importCsv(user, body, db, ids, now, reach) ==
    Let(SplitLines(Trim(body)), LAMBDA lines :
    Let(parseCSVLine(lines[1]), LAMBDA header :
    LET bad(msg) == [db |-> db, ids |-> ids,
                     response |-> [op |-> "import_csv", status |-> 400, error |-> msg]]
    IN  IF Len(lines) < 2 THEN bad("CSV must have at least a header and one data row")
        ELSE IF \E k \in 1..Len(requiredColumns) : ~Includes(header, requiredColumns[k])
        THEN bad("Missing required column")
        ELSE
          Let(CsvLoop(lines, 1, ColumnIdx(header), user, now, reach,
                      [db |-> db, ids |-> ids, success |-> 0, errors |-> <<>>,
                       served |-> 0]), LAMBDA st :
              [db |-> st.db, ids |-> st.ids,
               response |-> [op |-> "import_csv", status |-> 200, imported |-> st.success,
                             total |-> Len(lines) - 1, errors |-> st.errors]])))

----------------------------------------------------------------------------
(* CSV preview *)

MaxPreviewLines == 6

Min(a, b) == IF a < b THEN a ELSE b

PreviewCell(values, idx) ==
    IF idx # -1 /\ Truthy(At(values, idx)) THEN JSONParse(At(values, idx).s)
    ELSE Returned(JsNull)

\* The try / catch of POST /csv/preview for one non-blank line.
PreviewRow(line, i, idx) ==
    LET values == parseCSVLine(line)
        data == PreviewCell(values, idx.dataIdx)
        tags == PreviewCell(values, idx.tagsIdx)
        failed(msg) == [line |-> i + 1, timestamp |-> JsStr(<<>>), event_type |-> JsStr(<<>>),
                        data |-> JsNull, tags |-> JsNull, error |-> JsStr(S(msg))]
    IN  IF ~data.ok THEN failed(data.message)
        ELSE IF ~tags.ok THEN failed(tags.message)
        ELSE [line |-> i + 1, timestamp |-> At(values, idx.timestampIdx),
              event_type |-> At(values, idx.eventTypeIdx),
              data |-> data.value, tags |-> tags.value, error |-> Undefined]

RECURSIVE PreviewLoop(_, _, _, _, _)
PreviewLoop(lines, i, maxPreview, idx, preview) ==
    IF i >= maxPreview THEN preview
    ELSE
      LET line == Trim(lines[i + 1])
      IN  IF line = <<>> THEN PreviewLoop(lines, i + 1, maxPreview, idx, preview)
          ELSE PreviewLoop(lines, i + 1, maxPreview, idx,
                           Append(preview, PreviewRow(line, i, idx)))

\* POST /api/import/csv/preview: the response; the handler holds no statement
\* that writes.
previewCsv(body) ==
    LET lines == SplitLines(Trim(body))
        header == parseCSVLine(lines[1])
        missingColumns == {k \in 1..Len(requiredColumns) : ~Includes(header, requiredColumns[k])}
    IN  IF Len(lines) < 2
        THEN [op |-> "preview_csv", status |-> 400,
              error |-> "CSV must have at least a header and one data row"]
        ELSE IF missingColumns # {}
        THEN [op |-> "preview_csv", status |-> 200, valid |-> FALSE,
              error |-> "Missing required columns"]
        ELSE [op |-> "preview_csv", status |-> 200, valid |-> TRUE, columns |-> header,
              total_rows |-> Len(lines) - 1,
              preview |-> PreviewLoop(lines, 1, Min(Len(lines), MaxPreviewLines),
                                      ColumnIdx(header), <<>>)]

----------------------------------------------------------------------------
(* Event store routes *)

SourceEnum == {S("manual"), S("csv_import"), S("json_import")}

\* createEventSchema.safeParse: whether the body has the shape.
createEventSchema(b) ==
    /\ b.timestamp.t \in {"undefined", "number"}
    /\ b.event_type.t = "string" /\ Len(b.event_type.s) >= 1
    /\ b.data.t \in {"undefined", "object"}
    /\ b.tags.t = "undefined" \/ IsStringArray(b.tags)
    /\ b.source.t = "undefined" \/ (b.source.t = "string" /\ b.source.s \in SourceEnum)

\* updateEventSchema.safeParse: whether the body has the shape.
updateEventSchema(b) ==
    /\ b.timestamp.t \in {"undefined", "number"}
    /\ b.event_type.t = "undefined" \/ (b.event_type.t = "string" /\ Len(b.event_type.s) >= 1)
    /\ b.data.t \in {"undefined", "object"}
    /\ b.tags.t = "undefined" \/ IsStringArray(b.tags)

\* a ?? b
Nullish(a, b) == IF a.t \in {"undefined", "null"} THEN b ELSE a

\* A row as the routes return it: data and tags decoded.
\* event.data ? JSON.parse(event.data) : null, event.tags ? JSON.parse(event.tags) : []
Decoded(row) ==
    [id |-> row.id, user_id |-> row.user_id, timestamp |-> row.timestamp,
     event_type |-> row.event_type,
     data |-> IF row.data # SqlNull /\ row.data # <<>> THEN JSONParse(row.data).value ELSE JsNull,
     tags |-> IF row.tags # SqlNull /\ row.tags # <<>> THEN JSONParse(row.tags).value ELSE JsArr(<<>>),
     source |-> row.source, created_at |-> row.created_at]

\* app.onError: what a handler throws becomes one 500 response.
onError(op, message) == [op |-> op, status |-> 500, error |-> message]

\* POST /api/events
createEvent(user, body, db, ids, now, reach) ==
    IF ~createEventSchema(body)
    THEN [db |-> db, ids |-> ids,
          response |-> [op |-> "create", status |-> 400, error |-> "ZodError"]]
    ELSE
      LET eventId == ids
          timestamp == Nullish(body.timestamp, JsNum(now)).n
          source == Nullish(body.source, JsStr(S("manual"))).s
          ins == InsertEvent(db, eventId, user, timestamp, body.event_type,
                             StringifyOrNull(body.data), StringifyOrNull(body.tags),
                             source, now, Up(reach, 0))
      IN  IF ~ins.ok
          THEN [db |-> db, ids |-> ids + 1, response |-> onError("create", ins.message)]
          ELSE
          [db |-> ins.value, ids |-> ids + 1,
           response |-> [op |-> "create", status |-> 201,
                         event |-> [id |-> eventId, user_id |-> user, timestamp |-> timestamp,
                                    event_type |-> body.event_type.s,
                                    data |-> Nullish(body.data, JsNull),
                                    tags |-> Nullish(body.tags, JsArr(<<>>)),
                                    source |-> source, created_at |-> now]]]

\* SQLite's LIKE: % matches any run of characters, _ any one character, and
\* letters match without regard to (ASCII) case.
UpperCase == S("ABCDEFGHIJKLMNOPQRSTUVWXYZ")
LowerCase == S("abcdefghijklmnopqrstuvwxyz")
Fold(ch) == IF Includes(UpperCase, ch) THEN LowerCase[IndexOf(UpperCase, ch) + 1] ELSE ch

RECURSIVE Like(_, _)
Like(pattern, text) ==
    IF pattern = <<>> THEN text = <<>>
    ELSE IF Head(pattern) = "%"
         THEN Like(Tail(pattern), text) \/ (text # <<>> /\ Like(pattern, Tail(text)))
    ELSE /\ text # <<>>
         /\ Head(pattern) = "_" \/ Fold(Head(pattern)) = Fold(Head(text))
         /\ Like(Tail(pattern), Tail(text))

\* tags.split(',').map((t) => t.trim())
TagList(tags) == LET parts == Split(tags, ",") IN [i \in 1..Len(parts) |-> Trim(parts[i])]

\* `%"${tag}"%`
TagPattern(tag) == S("%\"") \o tag \o S("\"%")

\* The WHERE clause GET /api/events builds, on one row.
ListWhere(row, user, q) ==
    /\ row.user_id = user
    /\ Truthy(q.event_type) => row.event_type = q.event_type.s
    /\ Truthy(q.start) => NumLe(q.start.n, row.timestamp)
    /\ Truthy(q.end) => NumLe(row.timestamp, q.end.n)
    /\ Truthy(q.tags) =>
          \A i \in 1..Len(TagList(q.tags.s)) :
              row.tags # SqlNull /\ Like(TagPattern(TagList(q.tags.s)[i]), row.tags)

\* ORDER BY timestamp DESC: every arrangement of the rows the database may
\* return (rows of equal timestamp come in an order it does not fix).
Orderings(rows) ==
    {f \in [1..Cardinality(rows) -> rows] :
        /\ \A i, j \in 1..Cardinality(rows) : i # j => f[i] # f[j]
        /\ \A i, j \in 1..Cardinality(rows) : i < j => NumLe(f[j].timestamp, f[i].timestamp)}

\* LIMIT ? OFFSET ?
Page(seq, limit, offset) == SubSeq(seq, offset + 1, Min(Len(seq), offset + limit))

\* GET /api/events: the responses the query may get.
listEvents(user, q, db) ==
    {[op |-> "list", status |-> 200,
      events |-> [i \in 1..Len(Page(f, q.limit, q.offset)) |-> Decoded(Page(f, q.limit, q.offset)[i])],
      meta |-> [limit |-> q.limit, offset |-> q.offset,
                count |-> Len(Page(f, q.limit, q.offset))]] :
        f \in Orderings({row \in db : ListWhere(row, user, q)})}

\* SELECT * FROM events WHERE id = ? AND user_id = ?
SelectEvent(db, id, user) == {row \in db : row.id = id /\ row.user_id = user}

\* GET /api/events/:id
getEvent(user, id, db) ==
    IF SelectEvent(db, id, user) = {}
    THEN [op |-> "get", status |-> 404, error |-> "Event not found"]
    ELSE [op |-> "get", status |-> 200,
          event |-> Decoded(CHOOSE row \in SelectEvent(db, id, user) : TRUE)]

\* {...old, ...new} on objects.
Merged(old, new) ==
    LET kept == SelectSeq(old.o, LAMBDA e : \A i \in 1..Len(new.o) : new.o[i][1] # e[1])
    IN  JsObj(kept \o new.o)

\* UPDATE events SET ... WHERE id = ? AND user_id = ?, on one row.
UpdatedRow_mergeData(row, body) ==
    [row EXCEPT
        !.timestamp = IF body.timestamp.t # "undefined" THEN body.timestamp.n ELSE @,
        !.event_type = IF body.event_type.t # "undefined" THEN body.event_type.s ELSE @,
        !.data = IF body.data.t # "undefined"
                 THEN IF @ = SqlNull THEN Stringify(body.data)
                      ELSE Stringify(Merged(JSONParse(@).value, body.data))
                 ELSE @,
        !.tags = IF body.tags.t # "undefined" THEN Stringify(body.tags) ELSE @]

\* The same statement were it to set every key the body carries.
UpdatedRow_everyKey(row, body) ==
    [row EXCEPT
        !.timestamp = IF body.timestamp.t # "undefined" THEN body.timestamp.n ELSE @,
        !.event_type = IF body.event_type.t # "undefined" THEN body.event_type.s ELSE @,
        !.data = IF body.data.t # "undefined" THEN Stringify(body.data) ELSE @,
        !.tags = IF body.tags.t # "undefined" THEN Stringify(body.tags) ELSE @,
        !.source = IF "source" \in DOMAIN body THEN body.source.s ELSE @,
        !.created_at = IF "created_at" \in DOMAIN body THEN body.created_at.n ELSE @]

\* updateEventSchema names timestamp, event_type, data and tags; z.object
\* strips every other key of the body, so the statement sets none.
UpdatedRow(row, body) ==
    [row EXCEPT
        !.timestamp = IF body.timestamp.t # "undefined" THEN body.timestamp.n ELSE @,
        !.event_type = IF body.event_type.t # "undefined" THEN body.event_type.s ELSE @,
        !.data = IF body.data.t # "undefined" THEN Stringify(body.data) ELSE @,
        !.tags = IF body.tags.t # "undefined" THEN Stringify(body.tags) ELSE @]

\* PATCH /api/events/:id
updateEvent(user, id, body, db) ==
    LET unchanged(r) == [db |-> db, response |-> r]
        existing == SelectEvent(db, id, user)
        after == {IF row.id = id /\ row.user_id = user THEN UpdatedRow(row, body) ELSE row :
                    row \in db}
    IN  IF ~updateEventSchema(body)
        THEN unchanged([op |-> "update", status |-> 400, error |-> "ZodError"])
        ELSE IF existing = {}
        THEN unchanged([op |-> "update", status |-> 404, error |-> "Event not found"])
        ELSE IF \A f \in {"timestamp", "event_type", "data", "tags"} : body[f].t = "undefined"
        THEN unchanged([op |-> "update", status |-> 400, error |-> "No fields to update"])
        ELSE [db |-> after,
              response |-> [op |-> "update", status |-> 200,
                            event |-> Decoded(CHOOSE row \in SelectEvent(after, id, user) : TRUE)]]

\* DELETE /api/events/:id
deleteEvent(user, id, db) ==
    IF SelectEvent(db, id, user) = {}
    THEN [db |-> db, response |-> [op |-> "delete", status |-> 404, error |-> "Event not found"]]
    ELSE [db |-> db \ SelectEvent(db, id, user),
          response |-> [op |-> "delete", status |-> 200, success |-> TRUE]]

----------------------------------------------------------------------------
(* Event types route *)

\* The characters of names and types in the order of their codes (the BINARY
\* collation).
CharOrder == S("0123456789ABCDEFGHIJKLMNOPQRSTUVWXYZ_abcdefghijklmnopqrstuvwxyz")

RECURSIVE StrLess(_, _)
StrLess(a, b) ==
    IF b = <<>> THEN FALSE
    ELSE IF a = <<>> THEN TRUE
    ELSE IF Head(a) = Head(b) THEN StrLess(Tail(a), Tail(b))
    ELSE IndexOf(CharOrder, Head(a)) < IndexOf(CharOrder, Head(b))

\* ORDER BY on a set of distinct strings.
SortedStrings(strs) ==
    CHOOSE f \in [1..Cardinality(strs) -> strs] :
        \A i, j \in 1..Cardinality(strs) : i < j => StrLess(f[i], f[j])

\* GET /api/events/types/list
listEventTypes(user, db) ==
    [op |-> "types", status |-> 200,
     types |-> SortedStrings({row.event_type : row \in {r \in db : r.user_id = user}})]

----------------------------------------------------------------------------
(* Schema registry routes *)

\* obj[key] on an object value.
Get(v, key) ==
    IF \E i \in 1..Len(v.o) : v.o[i][1] = key
    THEN v.o[CHOOSE i \in 1..Len(v.o) : v.o[i][1] = key][2]
    ELSE Undefined

IsNonEmptyString(v) == v.t = "string" /\ Len(v.s) >= 1
OptionalString(v) == v.t \in {"undefined", "string"}
OptionalBoolean(v) == v.t \in {"undefined", "boolean"}

FieldTypes == {S("string"), S("number"), S("decimal"), S("boolean"), S("date"), S("datetime")}

\* fieldDefinitionSchema.safeParse: whether the value has the shape.
fieldDefinitionSchema(f) ==
    /\ f.t = "object"
    /\ IsNonEmptyString(Get(f, S("name")))
    /\ IsNonEmptyString(Get(f, S("label")))
    /\ Get(f, S("type")).t = "string" /\ Get(f, S("type")).s \in FieldTypes
    /\ OptionalBoolean(Get(f, S("required")))
    /\ OptionalBoolean(Get(f, S("primary")))
    /\ OptionalString(Get(f, S("unit")))

\* The parsed field: the keys of the shape that are present, in shape order.
FieldKeys == <<S("name"), S("label"), S("type"), S("required"), S("primary"), S("unit")>>
StripField(f) ==
    JsObj(SelectSeq([i \in 1..Len(FieldKeys) |-> <<FieldKeys[i], Get(f, FieldKeys[i])>>],
                    LAMBDA e : e[2].t # "undefined"))
StripFields(v) == JsArr([i \in 1..Len(v.a) |-> StripField(v.a[i])])

IsFieldArray(v) ==
    v.t = "array" /\ Len(v.a) >= 1 /\ \A i \in 1..Len(v.a) : fieldDefinitionSchema(v.a[i])

\* /^[a-z0-9_]+$/
NameChars == S("abcdefghijklmnopqrstuvwxyz0123456789_")
IsSchemaName(v) ==
    v.t = "string" /\ Len(v.s) >= 1 /\ \A i \in 1..Len(v.s) : Includes(NameChars, v.s[i])

\* createSchemaSchema.safeParse: whether the body has the shape.
createSchemaSchema(b) ==
    /\ IsSchemaName(b.name)
    /\ IsNonEmptyString(b.label)
    /\ IsFieldArray(b.fields)
    /\ OptionalString(b.icon)
    /\ OptionalString(b.color)
    /\ b.default_tags.t = "undefined" \/ IsStringArray(b.default_tags)

\* updateSchemaSchema.safeParse: whether the body has the shape; the shape
\* names no name key.
updateSchemaSchema(b) ==
    /\ b.label.t = "undefined" \/ IsNonEmptyString(b.label)
    /\ b.fields.t = "undefined" \/ IsFieldArray(b.fields)
    /\ OptionalString(b.icon)
    /\ OptionalString(b.color)
    /\ b.default_tags.t = "undefined" \/ IsStringArray(b.default_tags)

\* x ?? null bound to a TEXT column.
TextOrNull(v) == IF v.t \in {"undefined", "null"} THEN SqlNull ELSE v.s

\* A row as the routes return it: fields and default_tags decoded.
DecodedSchema(row) ==
    [row EXCEPT
        !.fields = JSONParse(@).value,
        !.default_tags = IF @ # SqlNull /\ @ # <<>> THEN JSONParse(@).value ELSE JsArr(<<>>)]

\* SELECT * FROM event_schemas WHERE id = ? AND user_id = ?
SelectSchema(db, id, user) == {row \in db : row.id = id /\ row.user_id = user}

\* SELECT ... FROM event_schemas WHERE name = ? AND user_id = ?
SelectSchemaByName(db, name, user) == {row \in db : row.name = name /\ row.user_id = user}

\* INSERT INTO event_schemas under UNIQUE(user_id, name).
InsertSchema(db, row) ==
    IF \E r \in db : r.user_id = row.user_id /\ r.name = row.name
    THEN Thrown("D1_ERROR: UNIQUE constraint failed")
    ELSE Returned(db \cup {row})

\* GET /api/schemas
listSchemas(user, db) ==
    LET mine == {row \in db : row.user_id = user}
        names == SortedStrings({row.name : row \in mine})
    IN  [op |-> "list_schemas", status |-> 200,
         schemas |-> [i \in 1..Len(names) |->
                        DecodedSchema(CHOOSE row \in mine : row.name = names[i])]]

\* GET /api/schemas/:id
getSchema(user, id, db) ==
    IF SelectSchema(db, id, user) = {}
    THEN [op |-> "get_schema", status |-> 404, error |-> "Schema not found"]
    ELSE [op |-> "get_schema", status |-> 200,
          schema |-> DecodedSchema(CHOOSE row \in SelectSchema(db, id, user) : TRUE)]

\* GET /api/schemas/by-name/:name
getSchemaByName(user, name, db) ==
    IF SelectSchemaByName(db, name, user) = {}
    THEN [op |-> "get_schema_by_name", status |-> 404, error |-> "Schema not found"]
    ELSE [op |-> "get_schema_by_name", status |-> 200,
          schema |-> DecodedSchema(CHOOSE row \in SelectSchemaByName(db, name, user) : TRUE)]

\* The existence check of POST /api/schemas.
NameTaken_anyOwner(db, name, user) == \E row \in db : row.name = name
NameTaken(db, name, user) == SelectSchemaByName(db, name, user) # {}

\* The INSERT of POST /api/schemas and the response built after it.
insertSchema(user, body, db, ids, now) ==
    LET schemaId == ids
        fields == StripFields(body.fields)
        ins == InsertSchema(db, [id |-> schemaId, user_id |-> user, name |-> body.name.s,
                                 label |-> body.label.s, fields |-> Stringify(fields),
                                 icon |-> TextOrNull(body.icon),
                                 color |-> TextOrNull(body.color),
                                 default_tags |-> StringifyOrNull(body.default_tags),
                                 created_at |-> now])
    IN  IF ~ins.ok
        THEN [db |-> db, ids |-> ids + 1,
              response |-> onError("create_schema", ins.message)]
        ELSE [db |-> ins.value, ids |-> ids + 1,
              response |-> [op |-> "create_schema", status |-> 201,
                            schema |-> [id |-> schemaId, user_id |-> user,
                                        name |-> body.name.s, label |-> body.label.s,
                                        fields |-> fields,
                                        icon |-> Nullish(body.icon, JsNull),
                                        color |-> Nullish(body.color, JsNull),
                                        default_tags |-> Nullish(body.default_tags, JsArr(<<>>)),
                                        created_at |-> now]]]

\* POST /api/schemas
createSchema(user, body, db, ids, now) ==
    IF ~createSchemaSchema(body)
    THEN [db |-> db, ids |-> ids,
          response |-> [op |-> "create_schema", status |-> 400, error |-> "ZodError"]]
    ELSE IF NameTaken(db, body.name.s, user)
    THEN [db |-> db, ids |-> ids,
          response |-> [op |-> "create_schema", status |-> 400,
                        error |-> "Schema with this name already exists"]]
    ELSE insertSchema(user, body, db, ids, now)

\* UPDATE event_schemas SET ... WHERE id = ? AND user_id = ?, on one row.
UpdatedSchemaRow_withName(row, body) ==
    [row EXCEPT
        !.name = IF body.name.t # "undefined" THEN body.name.s ELSE @,
        !.label = IF body.label.t # "undefined" THEN body.label.s ELSE @,
        !.fields = IF body.fields.t # "undefined" THEN Stringify(StripFields(body.fields)) ELSE @]
UpdatedSchemaRow(row, body) ==
    [row EXCEPT
        !.label = IF body.label.t # "undefined" THEN body.label.s ELSE @,
        !.fields = IF body.fields.t # "undefined" THEN Stringify(StripFields(body.fields)) ELSE @,
        !.icon = IF body.icon.t # "undefined" THEN body.icon.s ELSE @,
        !.color = IF body.color.t # "undefined" THEN body.color.s ELSE @,
        !.default_tags = IF body.default_tags.t # "undefined"
                         THEN Stringify(body.default_tags) ELSE @]

\* PATCH /api/schemas/:id
updateSchema(user, id, body, db) ==
    LET unchanged(r) == [db |-> db, response |-> r]
        existing == SelectSchema(db, id, user)
        after == {IF row.id = id /\ row.user_id = user THEN UpdatedSchemaRow(row, body) ELSE row :
                    row \in db}
    IN  IF ~updateSchemaSchema(body)
        THEN unchanged([op |-> "update_schema", status |-> 400, error |-> "ZodError"])
        ELSE IF existing = {}
        THEN unchanged([op |-> "update_schema", status |-> 404, error |-> "Schema not found"])
        ELSE IF \A f \in {"label", "fields", "icon", "color", "default_tags"} :
                   body[f].t = "undefined"
        THEN unchanged([op |-> "update_schema", status |-> 400, error |-> "No fields to update"])
        ELSE [db |-> after,
              response |-> [op |-> "update_schema", status |-> 200,
                            schema |-> DecodedSchema(CHOOSE row \in SelectSchema(after, id, user) : TRUE)]]

\* DELETE /api/schemas/:id
deleteSchema(user, id, db) ==
    IF SelectSchema(db, id, user) = {}
    THEN [db |-> db,
          response |-> [op |-> "delete_schema", status |-> 404, error |-> "Schema not found"]]
    ELSE [db |-> db \ SelectSchema(db, id, user),
          response |-> [op |-> "delete_schema", status |-> 200, success |-> TRUE]]

----------------------------------------------------------------------------
(* Sessions *)

\* The rows of auth_users; no route removes a user.
AuthUsers == Users

\* authMiddleware: the set holding the user it puts in the context, empty
\* when it sets none.  sessionId is the cookie's value, Undefined without
\* cookie.
authMiddleware_inclusive(sessionId, db, now) ==
    IF Truthy(sessionId)
    THEN {s.user_id : s \in {s \in db : /\ s.id = sessionId.s
                                        /\ NumLe(now, s.expires_at)
                                        /\ s.user_id \in AuthUsers}}
    ELSE {}
authMiddleware(sessionId, db, now) ==
    IF Truthy(sessionId)
    THEN {s.user_id : s \in {s \in db : /\ s.id = sessionId.s
                                        /\ NumLt(now, s.expires_at)
                                        /\ s.user_id \in AuthUsers}}
    ELSE {}

\* hashPassword: PBKDF2 under a salt drawn at random.  The derived bits are
\* modelled by the pair they are derived from, so that two hashes agree
\* exactly when the salt and the password agree.
Salts == {"a", "b"}
deriveBits(password, salt) == <<salt, password>>
hashPassword(password, salt) ==
    [alg |-> "pbkdf2", salt |-> salt, hash |-> deriveBits(password, salt)]

\* verifyPassword: derive again under the stored salt and compare.
verifyPassword(password, storedHash) ==
    /\ storedHash.alg = "pbkdf2"
    /\ deriveBits(password, storedHash.salt) = storedHash.hash

Email(u) == S(u) \o S("@x.io")
OldPassword == S("old-password")
SeedUsers ==
    {[id |-> u, email |-> Email(u), password_hash |-> hashPassword(OldPassword, "a")] :
        u \in AuthUsers}

\* requireAuth: TRUE when it calls next(), FALSE when it answers 401.
requireAuth(user) == user # {}

Unauthorized(op) == [op |-> op, status |-> 401, error |-> "Unauthorized"]

----------------------------------------------------------------------------
(* Actions: one per route, on the request given *)

MaxClock == 1

NoResp == [op |-> "none"]

ImportJson(u, body, reach) ==
    LET out == importJson(u, body, events, nextId, Now, reach)
    IN  /\ events' = out.db
        /\ nextId' = out.ids
        /\ req' = [op |-> "import_json", user |-> u, json |-> body, reach |-> reach]
        /\ resp' = out.response
        /\ UNCHANGED <<clock, schemas, sessions, tokens, calls, users>>

ImportCsv(u, body, reach) ==
    \E out \in {importCsv(u, body, events, nextId, Now, reach)} :
        /\ events' = out.db
        /\ nextId' = out.ids
        /\ req' = [op |-> "import_csv", user |-> u, body |-> body, reach |-> reach]
        /\ resp' = out.response
        /\ UNCHANGED <<clock, schemas, sessions, tokens, calls, users>>

PreviewCsv_inserting(u, body) ==
    LET out == importCsv(u, body, events, nextId, Now, Reachable)
    IN  /\ events' = out.db
        /\ nextId' = out.ids
        /\ req' = [op |-> "preview_csv", user |-> u, body |-> body]
        /\ resp' = previewCsv(body)
        /\ UNCHANGED <<clock, schemas, sessions, tokens, calls, users>>

PreviewCsv(u, body) ==
    /\ req' = [op |-> "preview_csv", user |-> u, body |-> body]
    /\ resp' = previewCsv(body)
    /\ UNCHANGED <<events, nextId, clock, schemas, sessions, tokens, calls, users>>

CreateEvent(u, body) ==
    LET out == createEvent(u, body, events, nextId, Now, Reachable)
    IN  /\ events' = out.db
        /\ nextId' = out.ids
        /\ req' = [op |-> "create", user |-> u, event |-> body]
        /\ resp' = out.response
        /\ UNCHANGED <<clock, schemas, sessions, tokens, calls, users>>

ListEvents(u, q) ==
    /\ req' = [op |-> "list", user |-> u, query |-> q]
    /\ resp' \in listEvents(u, q, events)
    /\ UNCHANGED <<events, nextId, clock, schemas, sessions, tokens, calls, users>>

GetEvent(u, id) ==
    /\ req' = [op |-> "get", user |-> u, id |-> id]
    /\ resp' = getEvent(u, id, events)
    /\ UNCHANGED <<events, nextId, clock, schemas, sessions, tokens, calls, users>>

UpdateEvent(u, id, body) ==
    LET out == updateEvent(u, id, body, events)
    IN  /\ events' = out.db
        /\ req' = [op |-> "update", user |-> u, id |-> id, patch |-> body]
        /\ resp' = out.response
        /\ UNCHANGED <<nextId, clock, schemas, sessions, tokens, calls, users>>

DeleteEvent(u, id) ==
    LET out == deleteEvent(u, id, events)
    IN  /\ events' = out.db
        /\ req' = [op |-> "delete", user |-> u, id |-> id]
        /\ resp' = out.response
        /\ UNCHANGED <<nextId, clock, schemas, sessions, tokens, calls, users>>

ListTypes(u) ==
    /\ req' = [op |-> "types", user |-> u]
    /\ resp' = listEventTypes(u, events)
    /\ UNCHANGED <<events, nextId, clock, schemas, sessions, tokens, calls, users>>

ListSchemas(u) ==
    /\ req' = [op |-> "list_schemas", user |-> u]
    /\ resp' = listSchemas(u, schemas)
    /\ UNCHANGED <<events, nextId, clock, schemas, sessions, tokens, calls, users>>

GetSchema(u, id) ==
    /\ req' = [op |-> "get_schema", user |-> u, id |-> id]
    /\ resp' = getSchema(u, id, schemas)
    /\ UNCHANGED <<events, nextId, clock, schemas, sessions, tokens, calls, users>>

GetSchemaByName(u, name) ==
    /\ req' = [op |-> "get_schema_by_name", user |-> u, name |-> name]
    /\ resp' = getSchemaByName(u, name, schemas)
    /\ UNCHANGED <<events, nextId, clock, schemas, sessions, tokens, calls, users>>

CreateSchema(u, body) ==
    LET out == createSchema(u, body, schemas, nextId, Now)
    IN  /\ schemas' = out.db
        /\ nextId' = out.ids
        /\ req' = [op |-> "create_schema", user |-> u, schema |-> body]
        /\ resp' = out.response
        /\ UNCHANGED <<events, clock, sessions, tokens, calls, users>>

UpdateSchema(u, id, body) ==
    LET out == updateSchema(u, id, body, schemas)
    IN  /\ schemas' = out.db
        /\ req' = [op |-> "update_schema", user |-> u, id |-> id, patch |-> body]
        /\ resp' = out.response
        /\ UNCHANGED <<events, nextId, clock, sessions, tokens, calls, users>>

DeleteSchema_cascade(u, id) ==
    LET out == deleteSchema(u, id, schemas)
        names == {row.name : row \in SelectSchema(schemas, id, u)}
    IN  /\ schemas' = out.db
        /\ events' = {e \in events : ~(e.user_id = u /\ e.event_type \in names)}
        /\ req' = [op |-> "delete_schema", user |-> u, id |-> id]
        /\ resp' = out.response
        /\ UNCHANGED <<nextId, clock, sessions, tokens, calls, users>>

DeleteSchema(u, id) ==
    LET out == deleteSchema(u, id, schemas)
    IN  /\ schemas' = out.db
        /\ req' = [op |-> "delete_schema", user |-> u, id |-> id]
        /\ resp' = out.response
        /\ UNCHANGED <<events, nextId, clock, sessions, tokens, calls, users>>

\* Time passes between requests.
Tick ==
    /\ clock < MaxClock
    /\ clock' = clock + 1
    /\ UNCHANGED <<events, nextId, schemas, req, resp, sessions, tokens, calls, users>>

----------------------------------------------------------------------------
(* Bounds and inputs *)

MaxRows == 3
MaxPreviewRows == 6

SeqsUpTo(set, n) == UNION {[1..k -> set] : k \in 0..n}

Body(header, rows) == Join(<<header>> \o rows, S("\n"))

HeaderFull == S("timestamp,event_type,data,tags")
HeaderSwapped == S("event_type,timestamp,source")
HeaderNoType == S("timestamp,data")
HeaderNoTimestamp == S("event_type,tags")
Headers == {HeaderFull, HeaderSwapped, HeaderNoType, HeaderNoTimestamp}

RowData == S("2024-01-01,a,{}")
RowSwapped == S("a,2024-01-01,manual")
RowBadData == S("2024-01-01,a,{")
RowTags == S("2024-01-01,b,,\"[\"\"am\"\"]\"")
RowBadTags == S("2024-01-01,a,,x")
RowBlank == S(" ")
CsvRows == {RowData, RowSwapped, RowBadData, RowTags, RowBadTags, RowBlank}

CsvBodies == {Body(h, rows) : h \in Headers, rows \in SeqsUpTo(CsvRows, MaxRows)}

PreviewBodies ==
    {Body(h, rows) : h \in {HeaderFull, HeaderNoType},
                     rows \in SeqsUpTo({RowData, RowBadData, RowBlank}, MaxPreviewRows)}

JsonEvent(ts, type, data, tags, source) ==
    [timestamp |-> ts, event_type |-> type, data |-> data, tags |-> tags, source |-> source]

EvSeconds == JsonEvent(JsNum(Num(1700, 0)), JsStr(S("a")), Undefined, Undefined, Undefined)
EvMillis == JsonEvent(JsNum(Num(1700000, 5)), JsStr(S("a")), ObjEmpty, Undefined, Undefined)
EvIso ==
    JsonEvent(JsStr(IsoDate), JsStr(S("b")), ObjK, JsArr(<<JsStr(S("am"))>>), JsStr(S("manual")))
EvBadTimestamp == JsonEvent(JsStr(S("x")), JsStr(S("a")), Undefined, Undefined, Undefined)
EvNoType == JsonEvent(JsNum(Num(1700, 0)), Undefined, Undefined, Undefined, Undefined)
JsonEvents == {EvSeconds, EvMillis, EvIso, EvBadTimestamp, EvNoType}

JsonBodies ==
    {[events |-> JsArr(evs)] : evs \in SeqsUpTo(JsonEvents, MaxRows)}
    \cup {[events |-> Undefined]}

TimestampInputs ==
    {JsNum(Num(hi, lo)) : hi \in {-1, 0, 1, 1700, 9999, 10000, 10001, 1700000},
                          lo \in {0, 1, 999, 1000, 1001, 500000, 999999}}
    \cup {JsStr(IsoDate), JsStr(S("not-a-date")), JsStr(<<>>), JsStr(S("x")), Undefined}

----------------------------------------------------------------------------
(* The timestamp normalizer applied to one input *)

Normalize ==
    /\ resp = NoResp
    /\ req.op = "parseTimestamp"
    /\ resp' = [op |-> "parseTimestamp", result |-> parseTimestamp(req.value)]
    /\ UNCHANGED <<events, nextId, clock, schemas, req, sessions, tokens, calls, users>>

InitTimestamp ==
    /\ events = {}
    /\ nextId = 0
    /\ clock = 0
    /\ schemas = {}
    /\ sessions = {}
    /\ tokens = {}
    /\ users = SeedUsers
    /\ calls = <<>>
    /\ req \in {[op |-> "parseTimestamp", value |-> v] : v \in TimestampInputs}
    /\ resp = NoResp

SpecTimestamp == InitTimestamp /\ [][Normalize]_vars

----------------------------------------------------------------------------
(* One import or preview request served on a store *)

ServeImportJson == resp = NoResp /\ req.op = "import_json" /\ ImportJson(req.user, req.json, req.reach)
ServeImportCsv ==
    /\ resp = NoResp
    /\ req.op = "import_csv"
    /\ \E b \in {req.body} : ImportCsv(req.user, b, req.reach)
ServePreviewCsv == resp = NoResp /\ req.op = "preview_csv" /\ PreviewCsv(req.user, req.body)

ImportRequests ==
    {[op |-> "import_json", user |-> u, json |-> b, reach |-> Reachable] :
        u \in Users, b \in JsonBodies}
    \cup {[op |-> "import_csv", user |-> u, body |-> b, reach |-> Reachable] :
        u \in Users, b \in CsvBodies}
    \cup {[op |-> "preview_csv", user |-> u, body |-> b] : u \in {"u1"}, b \in PreviewBodies}

CreateBody(ts, type, data, tags, source) ==
    [timestamp |-> ts, event_type |-> type, data |-> data, tags |-> tags, source |-> source]

CreatePlain == CreateBody(Undefined, JsStr(S("a")), Undefined, Undefined, Undefined)
CreateFull ==
    CreateBody(JsNum(Num(1700000, 7)), JsStr(S("b")), ObjK,
               JsArr(<<JsStr(S("am")), JsStr(S("h"))>>), JsStr(S("manual")))

\* The table and id counter after the given POST /api/events requests, each
\* <<user, body>>, served in order on an empty table.
RECURSIVE StoreAfter(_)
StoreAfter(creates) ==
    IF creates = <<>> THEN [db |-> {}, ids |-> 0]
    ELSE LET before == StoreAfter(SubSeq(creates, 1, Len(creates) - 1))
             last == creates[Len(creates)]
         IN  createEvent(last[1], last[2], before.db, before.ids, Num(1700000, 0), Reachable)

ImportSeeds == {StoreAfter(<<>>), StoreAfter(<< <<"u1", CreateFull>> >>)}

InitImport ==
    /\ \E seed \in ImportSeeds : events = seed.db /\ nextId = seed.ids
    /\ clock = 0
    /\ schemas = {}
    /\ sessions = {}
    /\ tokens = {}
    /\ users = SeedUsers
    /\ calls = <<>>
    /\ req \in ImportRequests
    /\ resp = NoResp

NextImport == ServeImportJson \/ ServeImportCsv \/ ServePreviewCsv

SpecImport == InitImport /\ [][NextImport]_vars

----------------------------------------------------------------------------
(* Events created with tags, then listed by tags *)

MaxEvents == 2
DefaultLimit == 100

Query(type, start, end, tags) ==
    [event_type |-> type, start |-> start, end |-> end, tags |-> tags,
     limit |-> DefaultLimit, offset |-> 0]

TaggedCreates ==
    {CreateBody(Undefined, JsStr(S("a")), Undefined, tags, Undefined) :
        tags \in {Undefined} \cup {JsArr([i \in 1..Len(ts) |-> JsStr(ts[i])]) :
                                    ts \in {<<S("am")>>, <<S("Am")>>, <<S("ab")>>,
                                            <<S("h")>>, <<S("am"), S("h")>>}}}

TagQueries ==
    {Query(Undefined, Undefined, Undefined, JsStr(tags)) :
        tags \in {S("am"), S("h"), S("am,h"), S("h, am"), S("a_")}}

CreateTagged == \E u \in Users, b \in TaggedCreates : nextId < MaxEvents /\ CreateEvent(u, b)
ListByTags == \E u \in Users, q \in TagQueries : ListEvents(u, q)

InitEmpty ==
    /\ events = {}
    /\ nextId = 0
    /\ clock = 0
    /\ schemas = {}
    /\ sessions = {}
    /\ tokens = {}
    /\ users = SeedUsers
    /\ calls = <<>>
    /\ req = [op |-> "none"]
    /\ resp = NoResp

SpecList == InitEmpty /\ [][CreateTagged \/ ListByTags]_vars

----------------------------------------------------------------------------
(* One update request served on a table of created events *)

MaxSeed == 2

SeedCreates == {<<"u1", CreatePlain>>, <<"u1", CreateFull>>, <<"u2", CreateFull>>}
UpdateSeeds == {StoreAfter(cs) : cs \in SeqsUpTo(SeedCreates, MaxSeed)}

UpdatePatches ==
    {[timestamp |-> ts, event_type |-> type, data |-> data, tags |-> tags] :
        ts \in {Undefined, JsNum(Small(0)), JsNum(Num(1700000, 9))},
        type \in {Undefined, JsStr(S("c")), JsStr(<<>>)},
        data \in {Undefined, ObjJ, ObjEmpty},
        tags \in {Undefined, JsArr(<<JsStr(S("h"))>>), JsArr(<<>>)}}

UpdateRequests ==
    {[op |-> "update", user |-> u, id |-> id, patch |-> p] :
        u \in Users, id \in 0..MaxSeed, p \in UpdatePatches}

ServeUpdate == resp = NoResp /\ req.op = "update" /\ UpdateEvent(req.user, req.id, req.patch)

InitUpdate ==
    /\ \E seed \in UpdateSeeds : events = seed.db /\ nextId = seed.ids
    /\ clock = 0
    /\ schemas = {}
    /\ sessions = {}
    /\ tokens = {}
    /\ users = SeedUsers
    /\ calls = <<>>
    /\ req \in UpdateRequests
    /\ resp = NoResp

SpecUpdate == InitUpdate /\ [][ServeUpdate]_vars

----------------------------------------------------------------------------
(* One request served on the tables of two owners *)

SchemaBody(name, label, fields, icon, color, tags) ==
    [name |-> name, label |-> label, fields |-> fields, icon |-> icon, color |-> color,
     default_tags |-> tags]

SchemaA ==
    SchemaBody(JsStr(S("a")), JsStr(S("A")), JsArr(<<FieldN>>), Undefined, Undefined, Undefined)
SchemaB ==
    SchemaBody(JsStr(S("b")), JsStr(S("B")), JsArr(<<FieldN, FieldS>>), JsStr(S("i")),
               Undefined, JsArr(<<JsStr(S("am"))>>))

\* The registry and id counter after the given POST /api/schemas requests,
\* each <<user, body>>, served in order on an empty registry.
RECURSIVE RegistryAfter(_, _)
RegistryAfter(creates, ids) ==
    IF creates = <<>> THEN [db |-> {}, ids |-> ids]
    ELSE LET before == RegistryAfter(SubSeq(creates, 1, Len(creates) - 1), ids)
             last == creates[Len(creates)]
         IN  createSchema(last[1], last[2], before.db, before.ids, Num(1700000, 0))

OwnerEventSeeds ==
    {StoreAfter(cs) : cs \in {<<>>, << <<"u2", CreateFull>> >>,
                              << <<"u1", CreatePlain>>, <<"u2", CreateFull>> >>,
                              << <<"u1", CreateFull>>, <<"u1", CreatePlain>> >>}}
OwnerSchemaCreates ==
    {<<>>, << <<"u2", SchemaA>> >>, << <<"u1", SchemaA>>, <<"u2", SchemaB>> >>,
     << <<"u1", SchemaB>>, <<"u1", SchemaA>> >>}

MaxId == 4

EventPatches ==
    {[timestamp |-> Undefined, event_type |-> type, data |-> Undefined, tags |-> tags] :
        type \in {Undefined, JsStr(S("c")), JsStr(<<>>)},
        tags \in {Undefined, JsArr(<<JsStr(S("h"))>>)}}
SchemaPatches ==
    {[name |-> Undefined, label |-> label, fields |-> Undefined, icon |-> icon,
      color |-> Undefined, default_tags |-> Undefined] :
        label \in {Undefined, JsStr(S("L")), JsStr(<<>>)},
        icon \in {Undefined, JsStr(S("j"))}}

OwnerRequests ==
    {[op |-> o, user |-> u, id |-> id] :
        o \in {"get", "delete", "get_schema", "delete_schema"}, u \in Users, id \in 0..MaxId}
    \cup {[op |-> "update", user |-> u, id |-> id, patch |-> p] :
            u \in Users, id \in 0..MaxId, p \in EventPatches}
    \cup {[op |-> "update_schema", user |-> u, id |-> id, patch |-> p] :
            u \in Users, id \in 0..MaxId, p \in SchemaPatches}
    \cup {[op |-> "list", user |-> u, query |-> q] :
            u \in Users, q \in {Query(Undefined, Undefined, Undefined, Undefined),
                                Query(JsStr(S("b")), Undefined, Undefined, JsStr(S("am")))}}
    \cup {[op |-> o, user |-> u] : o \in {"types", "list_schemas"}, u \in Users}

Pending(op) == resp = NoResp /\ req.op = op

ServeGet == Pending("get") /\ GetEvent(req.user, req.id)
ServeDelete == Pending("delete") /\ DeleteEvent(req.user, req.id)
ServeList == Pending("list") /\ ListEvents(req.user, req.query)
ServeTypes == Pending("types") /\ ListTypes(req.user)
ServeGetSchema == Pending("get_schema") /\ GetSchema(req.user, req.id)
ServeUpdateSchema == Pending("update_schema") /\ UpdateSchema(req.user, req.id, req.patch)
ServeDeleteSchema == Pending("delete_schema") /\ DeleteSchema(req.user, req.id)
ServeListSchemas == Pending("list_schemas") /\ ListSchemas(req.user)

InitOwner ==
    /\ \E seed \in OwnerEventSeeds, cs \in OwnerSchemaCreates :
          /\ events = seed.db
          /\ schemas = RegistryAfter(cs, seed.ids).db
          /\ nextId = RegistryAfter(cs, seed.ids).ids
    /\ clock = 0
    /\ sessions = {}
    /\ tokens = {}
    /\ users = SeedUsers
    /\ calls = <<>>
    /\ req \in OwnerRequests
    /\ resp = NoResp

NextOwner ==
    \/ ServeGet
    \/ ServeUpdate
    \/ ServeDelete
    \/ ServeList
    \/ ServeTypes
    \/ ServeGetSchema
    \/ ServeUpdateSchema
    \/ ServeDeleteSchema
    \/ ServeListSchemas

SpecOwner == InitOwner /\ [][NextOwner]_vars

----------------------------------------------------------------------------
(* The schema registry beside the event store *)

MaxRecords == 2

SchemaBadName ==
    SchemaBody(JsStr(S("A b")), JsStr(S("A")), JsArr(<<FieldN>>), Undefined, Undefined, Undefined)
SchemaNoFields ==
    SchemaBody(JsStr(S("a")), JsStr(S("A")), JsArr(<<>>), Undefined, Undefined, Undefined)

SchemaPatch(name, label, fields) ==
    [name |-> name, label |-> label, fields |-> fields, icon |-> Undefined,
     color |-> Undefined, default_tags |-> Undefined]
RegistryPatches ==
    {SchemaPatch(JsStr(S("z")), JsStr(S("L")), Undefined),
     SchemaPatch(Undefined, Undefined, JsArr(<<>>)),
     SchemaPatch(Undefined, Undefined, Undefined)}

TypeACsv == Body(S("timestamp,event_type"), <<S("2024-01-01,a")>>)
TypeAJson == [events |-> JsArr(<<EvIso>>)]

RegCreateSchema ==
    \E u \in Users, b \in {SchemaA, SchemaBadName, SchemaNoFields} :
        createSchema(u, b, schemas, nextId, Now).ids <= MaxRecords /\ CreateSchema(u, b)
RegUpdateSchema ==
    \E u \in Users, id \in 0..(MaxRecords - 1), p \in RegistryPatches : UpdateSchema(u, id, p)
RegDeleteSchema == \E u \in Users, id \in 0..(MaxRecords - 1) : DeleteSchema(u, id)
RegGetSchemaByName == \E u \in Users : GetSchemaByName(u, S("a"))
RegCreateEvent ==
    \E u \in Users : nextId < MaxRecords /\ CreateEvent(u, CreatePlain)
RegImportCsv == nextId < MaxRecords /\ \E b \in {TypeACsv} : ImportCsv("u1", b, Reachable)
RegImportJson == nextId < MaxRecords /\ ImportJson("u1", TypeAJson, Reachable)

NextRegistry ==
    \/ RegCreateSchema
    \/ RegUpdateSchema
    \/ RegDeleteSchema
    \/ RegGetSchemaByName
    \/ RegCreateEvent
    \/ RegImportCsv
    \/ RegImportJson

SpecRegistry == InitEmpty /\ [][NextRegistry]_vars

----------------------------------------------------------------------------
(* One import served while the database becomes unreachable *)

MaxServed == 2

OutageRequests ==
    {[op |-> "import_json", user |-> u, json |-> [events |-> JsArr(evs)],
      reach |-> FailsAfter(k)] :
        u \in Users, evs \in SeqsUpTo({EvIso, EvBadTimestamp}, 2), k \in 0..MaxServed}
    \cup {[op |-> "import_csv", user |-> u, body |-> Body(HeaderFull, rows),
           reach |-> FailsAfter(k)] :
            u \in Users, rows \in SeqsUpTo({RowData, RowBadData}, 2) \ {<<>>},
            k \in 0..MaxServed}

InitOutage ==
    /\ \E seed \in ImportSeeds : events = seed.db /\ nextId = seed.ids
    /\ clock = 0
    /\ schemas = {}
    /\ sessions = {}
    /\ tokens = {}
    /\ users = SeedUsers
    /\ calls = <<>>
    /\ req \in OutageRequests
    /\ resp = NoResp

SpecOutage == InitOutage /\ [][ServeImportJson \/ ServeImportCsv]_vars

----------------------------------------------------------------------------
(* The life of events: inserted by create or import, updated, deleted *)

MaxLife == 2

\* An update body that carries keys the route's schema does not name.
PatchForeignKeys ==
    [timestamp |-> Undefined, event_type |-> JsStr(S("c")), data |-> Undefined, tags |-> Undefined,
     id |-> JsNum(Small(1)), user_id |-> JsStr(S("u2")), source |-> JsStr(S("json_import")),
     created_at |-> JsNum(Small(0))]

LifeCreate == nextId < MaxLife /\ CreateEvent("u1", CreatePlain)
LifeImportCsv == nextId < MaxLife /\ \E b \in {TypeACsv} : ImportCsv("u1", b, Reachable)
LifeImportJson == nextId < MaxLife /\ ImportJson("u2", TypeAJson, Reachable)
LifeUpdate ==
    \E u \in Users, id \in 0..(MaxLife - 1) : UpdateEvent(u, id, PatchForeignKeys)
LifeDelete == \E id \in 0..(MaxLife - 1) : DeleteEvent("u1", id)

NextLife ==
    \/ LifeCreate
    \/ LifeImportCsv
    \/ LifeImportJson
    \/ LifeUpdate
    \/ LifeDelete
    \/ Tick

SpecLife == InitEmpty /\ [][NextLife]_vars

----------------------------------------------------------------------------
(* Events inserted and updated with tags lists *)

TagsHH == JsArr(<<JsStr(S("h")), JsStr(S("h"))>>)
TagsAmH == JsArr(<<JsStr(S("am")), JsStr(S("h"))>>)

PatchTags(tags) ==
    [timestamp |-> Undefined, event_type |-> Undefined, data |-> Undefined, tags |-> tags]
RowDupTags == S("2024-01-01,a,,\"[\"\"h\"\",\"\"h\"\"]\"")
EvDupTags == JsonEvent(JsStr(IsoDate), JsStr(S("a")), Undefined, TagsHH, Undefined)

TagsCreate ==
    \E u \in Users, tags \in {TagsHH, TagsAmH} :
        nextId < MaxLife /\ CreateEvent(u, CreateBody(Undefined, JsStr(S("a")), Undefined, tags, Undefined))
TagsUpdate ==
    \E u \in Users, id \in 0..(MaxLife - 1), tags \in {TagsHH, TagsAmH} :
        UpdateEvent(u, id, PatchTags(tags))
TagsImportCsv ==
    \E b \in {Body(HeaderFull, <<row>>) : row \in {RowTags, RowDupTags}} :
        nextId < MaxLife /\ ImportCsv("u1", b, Reachable)
TagsImportJson ==
    \E ev \in {EvIso, EvDupTags} :
        nextId < MaxLife /\ ImportJson("u1", [events |-> JsArr(<<ev>>)], Reachable)

SpecTags == InitEmpty /\ [][TagsCreate \/ TagsUpdate \/ TagsImportCsv \/ TagsImportJson]_vars

----------------------------------------------------------------------------
(* Text imports whose data and tags cells hold every kind of JSON value *)

RowDataNumber == S("2024-01-01,a,5")
RowDataString == S("2024-01-01,a,\"\"\"s\"\"\"")
RowDataTrue == S("2024-01-01,a,true")
RowDataNull == S("2024-01-01,a,null")
RowDataArray == S("2024-01-01,a,\"[\"\"am\"\"]\"")
RowTagsObject == S("2024-01-01,a,,{}")
RowTagsNumber == S("2024-01-01,a,,5")
CellRows ==
    {RowData, RowTags, RowBadData, RowDataNumber, RowDataString, RowDataTrue,
     RowDataNull, RowDataArray, RowTagsObject, RowTagsNumber}

CellsImportCsv ==
    \E u \in Users, b \in {Body(HeaderFull, <<row>>) : row \in CellRows} :
        nextId < MaxLife /\ ImportCsv(u, b, Reachable)

SpecCells == InitEmpty /\ [][CellsImportCsv]_vars

----------------------------------------------------------------------------
(* parseCSVLine applied to one line *)

MaxLine == 5
LineChars == {"a", ",", "\"", " "}
ExampleComma == S("a,\"b,c\",d")
ExampleQuote == S("a,\"b\"\"c\",d")
Lines == SeqsUpTo(LineChars, MaxLine) \cup {ExampleComma, ExampleQuote}

ParseLine ==
    /\ resp = NoResp
    /\ req.op = "parseCSVLine"
    /\ resp' = [op |-> "parseCSVLine", fields |-> parseCSVLine(req.line)]
    /\ UNCHANGED <<events, nextId, clock, schemas, req, sessions, tokens, calls, users>>

InitParseLine ==
    /\ events = {}
    /\ nextId = 0
    /\ clock = 0
    /\ schemas = {}
    /\ sessions = {}
    /\ tokens = {}
    /\ users = SeedUsers
    /\ calls = <<>>
    /\ req \in {[op |-> "parseCSVLine", line |-> l] : l \in Lines}
    /\ resp = NoResp

SpecParseLine == InitParseLine /\ [][ParseLine]_vars

----------------------------------------------------------------------------
(* One structured import request whose records are well-formed or malformed
   in every way the schema names *)

EvNoTimestamp == JsonEvent(Undefined, JsStr(S("a")), Undefined, Undefined, Undefined)
EvEmptyType == JsonEvent(JsStr(IsoDate), JsStr(<<>>), Undefined, Undefined, Undefined)
EvDataArray == JsonEvent(JsStr(IsoDate), JsStr(S("a")), JsArr(<<>>), Undefined, Undefined)
EvTagsNumber ==
    JsonEvent(JsStr(IsoDate), JsStr(S("a")), Undefined, JsArr(<<JsNum(Small(5))>>), Undefined)
EvTagsObject == JsonEvent(JsStr(IsoDate), JsStr(S("a")), Undefined, ObjEmpty, Undefined)
ShapeEvents ==
    {EvIso, EvNoType, EvNoTimestamp, EvEmptyType, EvDataArray, EvTagsNumber, EvTagsObject}
ShapeBodies ==
    {[events |-> JsArr(evs)] : evs \in SeqsUpTo(ShapeEvents, MaxRows)}
    \cup {[events |-> Undefined], [events |-> ObjEmpty]}

InitShape ==
    /\ \E seed \in ImportSeeds : events = seed.db /\ nextId = seed.ids
    /\ clock = 0
    /\ schemas = {}
    /\ sessions = {}
    /\ tokens = {}
    /\ users = SeedUsers
    /\ calls = <<>>
    /\ req \in {[op |-> "import_json", user |-> u, json |-> b, reach |-> Reachable] :
                   u \in Users, b \in ShapeBodies}
    /\ resp = NoResp

SpecShape == InitShape /\ [][ServeImportJson]_vars

----------------------------------------------------------------------------
(* One preview request over rows that the text import accepts or refuses *)

RowBadTimestamp == S("x,a,{}")
RowsPreviewed == {RowData, RowBadData, RowBadTimestamp, RowBlank}

InitPreview ==
    /\ events = {}
    /\ nextId = 0
    /\ clock = 0
    /\ schemas = {}
    /\ sessions = {}
    /\ tokens = {}
    /\ users = SeedUsers
    /\ calls = <<>>
    /\ req \in {[op |-> "preview_csv", user |-> u, body |-> Body(HeaderFull, rows)] :
                   u \in Users, rows \in SeqsUpTo(RowsPreviewed, MaxRows)}
    /\ resp = NoResp

SpecPreview == InitPreview /\ [][ServePreviewCsv]_vars

----------------------------------------------------------------------------
(* Events at timestamps around 0, listed by range *)

RangeTimestamps == {Num(-1, 999995), Small(0), Small(5), Small(9)}
RangeEnds == {Undefined, JsNum(Small(0)), JsNum(Small(5))}

RangeCreate ==
    \E u \in Users, ts \in RangeTimestamps :
        /\ nextId < MaxEvents
        /\ CreateEvent(u, CreateBody(JsNum(ts), JsStr(S("a")), Undefined, Undefined, Undefined))
RangeList ==
    \E u \in Users, start \in RangeEnds, end \in RangeEnds :
        ListEvents(u, Query(Undefined, start, end, Undefined))

SpecRange == InitEmpty /\ [][RangeCreate \/ RangeList]_vars

----------------------------------------------------------------------------
(* Concurrent POST /api/schemas requests: each handler invocation runs its
   statements one at a time, other invocations running between them *)

MaxCalls == 2

Done(call, response) == [call EXCEPT !.pc = "done", !.response = response]

\* A request arrives; zValidator answers a malformed body at once.
StartCreateSchema(u, body) ==
    /\ Len(calls) < MaxCalls
    /\ calls' = Append(calls,
          LET call == [op |-> "create_schema", user |-> u, body |-> body, pc |-> "select",
                       response |-> NoResp]
          IN  IF createSchemaSchema(body) THEN call
              ELSE Done(call, [op |-> "create_schema", status |-> 400, error |-> "ZodError"]))
    /\ UNCHANGED <<events, nextId, clock, schemas, req, resp, sessions, tokens, users>>

\* SELECT id FROM event_schemas WHERE name = ? AND user_id = ?
SelectSchemaName(c) ==
    /\ calls[c].op = "create_schema" /\ calls[c].pc = "select"
    /\ calls' = [calls EXCEPT ![c] =
          IF NameTaken(schemas, @.body.name.s, @.user)
          THEN Done(@, [op |-> "create_schema", status |-> 400,
                        error |-> "Schema with this name already exists"])
          ELSE [@ EXCEPT !.pc = "insert"]]
    /\ UNCHANGED <<events, nextId, clock, schemas, req, resp, sessions, tokens, users>>

\* INSERT INTO event_schemas ... and the response
RunInsertSchema(c) ==
    /\ calls[c].op = "create_schema" /\ calls[c].pc = "insert"
    /\ \E out \in {insertSchema(calls[c].user, calls[c].body, schemas, nextId, Now)} :
          /\ schemas' = out.db
          /\ nextId' = out.ids
          /\ calls' = [calls EXCEPT ![c] = Done(@, out.response)]
    /\ UNCHANGED <<events, clock, req, resp, sessions, tokens, users>>

RaceStart == \E u \in Users, b \in {SchemaA, SchemaB, SchemaBadName} : StartCreateSchema(u, b)
RaceSelect == \E c \in DOMAIN calls : SelectSchemaName(c)
RaceInsert == \E c \in DOMAIN calls : RunInsertSchema(c)

SpecRace == InitEmpty /\ [][RaceStart \/ RaceSelect \/ RaceInsert]_vars

----------------------------------------------------------------------------
(* Events created and deleted, and get, update and delete of their ids *)

DelCreate == \E u \in Users : nextId < MaxLife /\ CreateEvent(u, CreatePlain)
DelDelete == \E u \in Users, id \in 0..(MaxLife - 1) : DeleteEvent(u, id)
DelGet == \E u \in Users, id \in 0..(MaxLife - 1) : GetEvent(u, id)
DelUpdate ==
    \E u \in Users, id \in 0..(MaxLife - 1), p \in EventPatches : UpdateEvent(u, id, p)

SpecDelete == InitEmpty /\ [][DelCreate \/ DelDelete \/ DelGet \/ DelUpdate]_vars

----------------------------------------------------------------------------
(* The same timestamps imported as text cells and as structured records; the
   event_type of a record names the timestamp it was given: "s" for 1700
   epoch seconds, "c" for the calendar date, "x" for a text that is no
   timestamp *)

EncodedCsv ==
    {Body(S("timestamp,event_type"), <<row>>) : row \in {S("1700,s"), S("2024-01-01,c"), S("x,x")}}
EncodedJson ==
    {[events |-> JsArr(<<ev>>)] :
        ev \in {JsonEvent(JsNum(Small(1700)), JsStr(S("s")), Undefined, Undefined, Undefined),
                JsonEvent(JsStr(IsoDate), JsStr(S("c")), Undefined, Undefined, Undefined),
                JsonEvent(JsStr(S("x")), JsStr(S("x")), Undefined, Undefined, Undefined)}}

EncImportCsv == \E u \in Users, b \in EncodedCsv : nextId < MaxLife /\ ImportCsv(u, b, Reachable)
EncImportJson == \E u \in Users, b \in EncodedJson : nextId < MaxLife /\ ImportJson(u, b, Reachable)

SpecEncodings == InitEmpty /\ [][EncImportCsv \/ EncImportJson]_vars

----------------------------------------------------------------------------
(* Every write path, given an event_type and given an empty one *)

EventTypes == {JsStr(S("a")), JsStr(<<>>)}
RowEmptyType == S("2024-01-01,")

TypesCreate ==
    \E u \in Users, type \in EventTypes :
        /\ nextId < MaxLife
        /\ CreateEvent(u, CreateBody(Undefined, type, Undefined, Undefined, Undefined))
TypesUpdate ==
    \E u \in Users, id \in 0..(MaxLife - 1), type \in EventTypes :
        UpdateEvent(u, id, [timestamp |-> Undefined, event_type |-> type, data |-> Undefined,
                            tags |-> Undefined])
TypesImportJson ==
    \E u \in Users, type \in EventTypes :
        /\ nextId < MaxLife
        /\ ImportJson(u, [events |-> JsArr(<<JsonEvent(JsStr(IsoDate), type, Undefined,
                                                        Undefined, Undefined)>>)], Reachable)
TypesImportCsv ==
    \E u \in Users,
       b \in {Body(S("timestamp,event_type"), <<row>>) : row \in {S("2024-01-01,a"), RowEmptyType}} :
        nextId < MaxLife /\ ImportCsv(u, b, Reachable)

SpecTypes == InitEmpty /\ [][TypesCreate \/ TypesUpdate \/ TypesImportJson \/ TypesImportCsv]_vars

----------------------------------------------------------------------------
(* PATCH /api/events/:id run statement by statement, while other requests
   are served between its statements *)

\* A request arrives; zValidator answers a malformed body at once.
StartUpdateEvent(u, id, body) ==
    /\ Len(calls) < MaxCalls
    /\ calls' = Append(calls,
          LET call == [op |-> "update", user |-> u, id |-> id, body |-> body, pc |-> "select",
                       response |-> NoResp]
          IN  IF updateEventSchema(body) THEN call
              ELSE Done(call, [op |-> "update", status |-> 400, error |-> "ZodError"]))
    /\ UNCHANGED <<events, nextId, clock, schemas, req, resp, sessions, tokens, users>>

\* SELECT * FROM events WHERE id = ? AND user_id = ?, then the statement is
\* assembled
SelectExistingEvent(c) ==
    /\ calls[c].op = "update" /\ calls[c].pc = "select"
    /\ calls' = [calls EXCEPT ![c] =
          IF SelectEvent(events, @.id, @.user) = {}
          THEN Done(@, [op |-> "update", status |-> 404, error |-> "Event not found"])
          ELSE IF \A f \in {"timestamp", "event_type", "data", "tags"} : @.body[f].t = "undefined"
          THEN Done(@, [op |-> "update", status |-> 400, error |-> "No fields to update"])
          ELSE [@ EXCEPT !.pc = "update"]]
    /\ UNCHANGED <<events, nextId, clock, schemas, req, resp, sessions, tokens, users>>

\* UPDATE events SET ... WHERE id = ? AND user_id = ?
RunUpdateEvent(c) ==
    /\ calls[c].op = "update" /\ calls[c].pc = "update"
    /\ events' = {IF row.id = calls[c].id /\ row.user_id = calls[c].user
                  THEN UpdatedRow(row, calls[c].body) ELSE row : row \in events}
    /\ calls' = [calls EXCEPT ![c].pc = "fetch"]
    /\ UNCHANGED <<nextId, clock, schemas, req, resp, sessions, tokens, users>>

\* The second SELECT and the response: { ...updated, data, tags }, where
\* spreading a null `updated` contributes no key.
FetchUpdatedEvent(c) ==
    /\ calls[c].op = "update" /\ calls[c].pc = "fetch"
    /\ calls' = [calls EXCEPT ![c] =
          LET updated == SelectEvent(events, @.id, @.user)
          IN  Done(@, [op |-> "update", status |-> 200,
                       event |-> IF updated = {}
                                 THEN [data |-> JsNull, tags |-> JsArr(<<>>)]
                                 ELSE Decoded(CHOOSE row \in updated : TRUE)])]
    /\ UNCHANGED <<events, nextId, clock, schemas, req, resp, sessions, tokens, users>>

PatchType == [timestamp |-> Undefined, event_type |-> JsStr(S("c")), data |-> Undefined,
              tags |-> Undefined]
PatchEmpty == [timestamp |-> Undefined, event_type |-> Undefined, data |-> Undefined,
               tags |-> Undefined]
PatchEmptyType == [timestamp |-> Undefined, event_type |-> JsStr(<<>>), data |-> Undefined,
                   tags |-> Undefined]

StepCreate == nextId < MaxLife /\ CreateEvent("u1", CreatePlain)
StepDelete == \E u \in Users, id \in 0..(MaxLife - 1) : DeleteEvent(u, id)
StepStart ==
    \E id \in 0..(MaxLife - 1), p \in {PatchType, PatchEmpty, PatchEmptyType} :
        StartUpdateEvent("u1", id, p)
StepSelect == \E c \in DOMAIN calls : SelectExistingEvent(c)
StepUpdate == \E c \in DOMAIN calls : RunUpdateEvent(c)
StepFetch == \E c \in DOMAIN calls : FetchUpdatedEvent(c)

SpecSteps ==
    InitEmpty
    /\ [][StepCreate \/ StepDelete \/ StepStart \/ StepSelect \/ StepUpdate \/ StepFetch]_vars

----------------------------------------------------------------------------
(* One request to a route behind requireAuth, carrying a session cookie or
   none, against stored sessions that are expired, about to expire and live *)

SessionNow == [id |-> S("s0"), user_id |-> "u1", expires_at |-> Num(1700000, 0)]
SessionSoon == [id |-> S("s1"), user_id |-> "u1", expires_at |-> Num(1700000, 1)]
SessionLong == [id |-> S("s2"), user_id |-> "u2", expires_at |-> Num(4292000, 0)]
Cookies ==
    {Undefined, JsStr(<<>>), JsStr(S("s9")), JsStr(SessionNow.id), JsStr(SessionSoon.id),
     JsStr(SessionLong.id)}

Routes ==
    {[op |-> o, id |-> id] :
        o \in {"get", "delete", "get_schema", "delete_schema"}, id \in 0..(MaxLife - 1)}
    \cup {[op |-> "update", id |-> id, patch |-> p] :
            id \in 0..(MaxLife - 1), p \in {PatchType, PatchEmptyType}}
    \cup {[op |-> "update_schema", id |-> id, patch |-> SchemaPatch(Undefined, JsStr(S("L")), Undefined)] :
            id \in 0..(MaxLife - 1)}
    \cup {[op |-> "list", query |-> Query(Undefined, Undefined, Undefined, Undefined)]}
    \cup {[op |-> o] : o \in {"types", "list_schemas"}}
    \cup {[op |-> "create", event |-> CreatePlain]}
    \cup {[op |-> "create_schema", schema |-> SchemaB]}
    \cup {[op |-> "get_schema_by_name", name |-> S("a")]}
    \cup {[op |-> "import_json", json |-> TypeAJson]}
    \cup {[op |-> o, body |-> TypeACsv] : o \in {"import_csv", "preview_csv"}}

\* The route handler, reached with the user requireAuth let through.
Route(u, r) ==
    \/ r.op = "get" /\ GetEvent(u, r.id)
    \/ r.op = "delete" /\ DeleteEvent(u, r.id)
    \/ r.op = "update" /\ UpdateEvent(u, r.id, r.patch)
    \/ r.op = "list" /\ ListEvents(u, r.query)
    \/ r.op = "types" /\ ListTypes(u)
    \/ r.op = "create" /\ CreateEvent(u, r.event)
    \/ r.op = "get_schema" /\ GetSchema(u, r.id)
    \/ r.op = "get_schema_by_name" /\ GetSchemaByName(u, r.name)
    \/ r.op = "delete_schema" /\ DeleteSchema(u, r.id)
    \/ r.op = "update_schema" /\ UpdateSchema(u, r.id, r.patch)
    \/ r.op = "list_schemas" /\ ListSchemas(u)
    \/ r.op = "create_schema" /\ CreateSchema(u, r.schema)
    \/ r.op = "import_json" /\ ImportJson(u, r.json, Reachable)
    \/ r.op = "import_csv" /\ (\E b \in {r.body} : ImportCsv(u, b, Reachable))
    \/ r.op = "preview_csv" /\ (\E b \in {r.body} : PreviewCsv(u, b))

ServeWithSession ==
    /\ resp = NoResp /\ "cookie" \in DOMAIN req
    /\ \E u \in authMiddleware(req.cookie, sessions, Now) : requireAuth({u}) /\ Route(u, req)

ServeUnauthorized ==
    /\ resp = NoResp /\ "cookie" \in DOMAIN req
    /\ ~requireAuth(authMiddleware(req.cookie, sessions, Now))
    /\ resp' = Unauthorized(req.op)
    /\ UNCHANGED <<events, nextId, clock, schemas, req, sessions, tokens, calls, users>>

InitAuth ==
    /\ \E seed \in {StoreAfter(<<>>), StoreAfter(<< <<"u1", CreatePlain>>, <<"u2", CreateFull>> >>)} :
          /\ events = seed.db
          /\ schemas = RegistryAfter(<< <<"u1", SchemaA>> >>, seed.ids).db
          /\ nextId = RegistryAfter(<< <<"u1", SchemaA>> >>, seed.ids).ids
    /\ clock \in 0..MaxClock
    /\ sessions = {SessionNow, SessionSoon, SessionLong}
    /\ tokens = {}
    /\ users = SeedUsers
    /\ calls = <<>>
    /\ req \in {r @@ [cookie |-> c] : r \in Routes, c \in Cookies}
    /\ resp = NoResp

SpecAuth == InitAuth /\ [][ServeWithSession \/ ServeUnauthorized]_vars

----------------------------------------------------------------------------
(* Password reset: login, forgot-password and reset-password invocations run
   their statements one at a time, other invocations and requests running
   between them.  A call's body also carries the row its handler selected. *)

MaxAuthCalls == 3
MaxUuids == 2

\* crypto.randomUUID(): a value never handed out before.
randomUUID(ids) == S("id-") \o NatText(ids)

SESSION_DURATION_MS == Num(2592, 0)
TokenDuration == Num(3, 600000)

NewPassword == S("new-password")
ShortPassword == S("short")
Emails == {Email("u1"), S("u9@x.io")}
Uuids == {randomUUID(n) : n \in 0..(MaxUuids - 1)}

loginSchema(body) == body.email.t = "string" /\ body.password.t = "string"
resetPasswordSchema(body) ==
    /\ body.token.t = "string"
    /\ body.password.t = "string" /\ Len(body.password.s) >= 8

\* SELECT * FROM auth_users WHERE email = ?
selectUserByEmail(email, db) == {u \in db : u.email = email}

\* SELECT * FROM auth_verification_tokens WHERE token = ? AND
\* type = 'password_reset' AND expires_at > ?
selectResetToken(token, db, now) ==
    {r \in db : r.token = token /\ r.type = "password_reset" /\ NumLt(now, r.expires_at)}

\* DELETE FROM auth_sessions WHERE user_id = ?
deleteSessions_none(user_id, db) == db
deleteSessions(user_id, db) == {s \in db : s.user_id # user_id}

\* POST /api/auth/login arrives: the body is validated, the user selected and
\* the password verified.
StartLogin(body) ==
    /\ Len(calls) < MaxAuthCalls
    /\ calls' = Append(calls,
          LET call == [op |-> "login", body |-> body, pc |-> "insert", response |-> NoResp]
              found == selectUserByEmail(body.email.s, users)
          IN  IF ~loginSchema(body)
              THEN Done(call, [op |-> "login", status |-> 400, error |-> "ZodError"])
              ELSE IF \A u \in found : ~verifyPassword(body.password.s, u.password_hash)
              THEN Done(call, [op |-> "login", status |-> 401,
                               error |-> "Invalid email or password"])
              ELSE [call EXCEPT !.body = body @@ [user_id |-> (CHOOSE u \in found : TRUE).id]])
    /\ UNCHANGED <<events, nextId, clock, schemas, req, resp, sessions, tokens, users>>

\* INSERT INTO auth_sessions ..., the cookie and the response
InsertSession(c) ==
    /\ calls[c].op = "login" /\ calls[c].pc = "insert"
    /\ nextId < MaxUuids
    /\ \E sessionId \in {randomUUID(nextId)} :
          /\ sessions' = sessions \cup
                {[id |-> sessionId, user_id |-> calls[c].body.user_id,
                  expires_at |-> NumAdd(Now, SESSION_DURATION_MS)]}
          /\ calls' = [calls EXCEPT ![c] =
                Done(@, [op |-> "login", status |-> 200, cookie |-> sessionId,
                         user |-> calls[c].body.user_id])]
    /\ nextId' = nextId + 1
    /\ UNCHANGED <<events, clock, schemas, req, resp, tokens, users>>

\* POST /api/auth/forgot-password arrives: the user is selected, an unknown
\* email being answered like a known one.
StartForgotPassword(email) ==
    /\ Len(calls) < MaxAuthCalls
    /\ calls' = Append(calls,
          LET call == [op |-> "forgot_password", body |-> [email |-> email], pc |-> "delete",
                       response |-> NoResp]
              found == selectUserByEmail(email, users)
          IN  IF found = {}
              THEN Done(call, [op |-> "forgot_password", status |-> 200, success |-> TRUE])
              ELSE [call EXCEPT !.body = @ @@ [user_id |-> (CHOOSE u \in found : TRUE).id]])
    /\ UNCHANGED <<events, nextId, clock, schemas, req, resp, sessions, tokens, users>>

\* DELETE FROM auth_verification_tokens WHERE user_id = ? AND type = 'password_reset'
DeleteOldTokens(c) ==
    /\ calls[c].op = "forgot_password" /\ calls[c].pc = "delete"
    /\ tokens' = {r \in tokens :
                    ~(r.user_id = calls[c].body.user_id /\ r.type = "password_reset")}
    /\ calls' = [calls EXCEPT ![c].pc = "insert"]
    /\ UNCHANGED <<events, nextId, clock, schemas, req, resp, sessions, users>>

\* INSERT INTO auth_verification_tokens ... and the response.  The row's id
\* and its token are two fresh values; the model spends one on both.
InsertToken(c) ==
    /\ calls[c].op = "forgot_password" /\ calls[c].pc = "insert"
    /\ nextId < MaxUuids
    /\ \E token \in {randomUUID(nextId)} :
          tokens' = tokens \cup
              {[id |-> token, user_id |-> calls[c].body.user_id, token |-> token,
                type |-> "password_reset", expires_at |-> NumAdd(Now, TokenDuration)]}
    /\ nextId' = nextId + 1
    /\ calls' = [calls EXCEPT ![c] =
          Done(@, [op |-> "forgot_password", status |-> 200, success |-> TRUE])]
    /\ UNCHANGED <<events, clock, schemas, req, resp, sessions, users>>

\* POST /api/auth/reset-password arrives: the body is validated and the token
\* selected.  before is not a local of the handler: it records the sessions
\* stored when the request arrived.
StartResetPassword(body) ==
    /\ Len(calls) < MaxAuthCalls
    /\ calls' = Append(calls,
          LET call == [op |-> "reset_password", body |-> body, pc |-> "password",
                       before |-> sessions, response |-> NoResp]
              found == IF resetPasswordSchema(body)
                       THEN selectResetToken(body.token.s, tokens, Now) ELSE {}
          IN  IF ~resetPasswordSchema(body)
              THEN Done(call, [op |-> "reset_password", status |-> 400, error |-> "ZodError"])
              ELSE IF found = {}
              THEN Done(call, [op |-> "reset_password", status |-> 400,
                               error |-> "Invalid or expired token"])
              ELSE [call EXCEPT !.body = body @@ [tokenRecord |-> CHOOSE r \in found : TRUE]])
    /\ UNCHANGED <<events, nextId, clock, schemas, req, resp, sessions, tokens, users>>

\* UPDATE auth_users SET password_hash = ? WHERE id = ?
UpdatePassword(c) ==
    /\ calls[c].op = "reset_password" /\ calls[c].pc = "password"
    /\ \E salt \in Salts :
          users' = {IF u.id = calls[c].body.tokenRecord.user_id
                    THEN [u EXCEPT !.password_hash = hashPassword(calls[c].body.password.s, salt)]
                    ELSE u : u \in users}
    /\ calls' = [calls EXCEPT ![c].pc = "sessions"]
    /\ UNCHANGED <<events, nextId, clock, schemas, req, resp, sessions, tokens>>

\* DELETE FROM auth_sessions WHERE user_id = ?
DeleteUserSessions(c) ==
    /\ calls[c].op = "reset_password" /\ calls[c].pc = "sessions"
    /\ sessions' = deleteSessions(calls[c].body.tokenRecord.user_id, sessions)
    /\ calls' = [calls EXCEPT ![c].pc = "token"]
    /\ UNCHANGED <<events, nextId, clock, schemas, req, resp, tokens, users>>

\* DELETE FROM auth_verification_tokens WHERE id = ? and the response
DeleteUsedToken(c) ==
    /\ calls[c].op = "reset_password" /\ calls[c].pc = "token"
    /\ tokens' = {r \in tokens : r.id # calls[c].body.tokenRecord.id}
    /\ calls' = [calls EXCEPT ![c] =
          Done(@, [op |-> "reset_password", status |-> 200, success |-> TRUE])]
    /\ UNCHANGED <<events, nextId, clock, schemas, req, resp, sessions, users>>

\* GET /api/auth/me, behind authMiddleware and requireAuth
Me(cookie) ==
    /\ req' = [op |-> "me", cookie |-> cookie]
    /\ resp' = LET user == authMiddleware(cookie, sessions, Now)
               IN  IF requireAuth(user)
                   THEN [op |-> "me", status |-> 200, user |-> CHOOSE u \in user : TRUE]
                   ELSE Unauthorized("me")
    /\ UNCHANGED <<events, nextId, clock, schemas, sessions, tokens, calls, users>>

ResetLogin ==
    \E p \in {OldPassword, NewPassword} :
        StartLogin([email |-> JsStr(Email("u1")), password |-> JsStr(p)])
ResetLoginUnknown ==
    StartLogin([email |-> JsStr(S("u9@x.io")), password |-> JsStr(OldPassword)])
ResetInsertSession == \E c \in DOMAIN calls : InsertSession(c)
ResetForgot == \E e \in Emails : StartForgotPassword(e)
ResetDeleteOld == \E c \in DOMAIN calls : DeleteOldTokens(c)
ResetInsertToken == \E c \in DOMAIN calls : InsertToken(c)
ResetStart ==
    \E token \in {JsStr(id) : id \in Uuids} \cup {Undefined},
       p \in {NewPassword, ShortPassword} :
        StartResetPassword([token |-> token, password |-> JsStr(p)])
ResetPassword == \E c \in DOMAIN calls : UpdatePassword(c)
ResetSessions == \E c \in DOMAIN calls : DeleteUserSessions(c)
ResetToken == \E c \in DOMAIN calls : DeleteUsedToken(c)
ResetMe == \E cookie \in {JsStr(id) : id \in Uuids} \cup {Undefined} : Me(cookie)

NextReset ==
    \/ ResetLogin \/ ResetLoginUnknown \/ ResetInsertSession
    \/ ResetForgot \/ ResetDeleteOld \/ ResetInsertToken
    \/ ResetStart \/ ResetPassword \/ ResetSessions \/ ResetToken
    \/ ResetMe

SpecReset == InitEmpty /\ [][NextReset]_vars

----------------------------------------------------------------------------
(* The API as a whole: any sequence of requests *)

SmallCsvBodies ==
    {Body(HeaderFull, <<RowBadData, RowTags>>), Body(HeaderFull, <<RowBlank, RowData>>),
     Body(HeaderNoType, <<RowData>>)}
SmallJsonBodies == {[events |-> JsArr(<<EvIso>>)], [events |-> JsArr(<<EvBadTimestamp, EvSeconds>>)]}
SmallPatches ==
    {[timestamp |-> JsNum(Small(0)), event_type |-> Undefined, data |-> ObjJ, tags |-> Undefined]}
SmallQueries == {Query(JsStr(S("b")), Undefined, Undefined, JsStr(S("am")))}

\* The lines of a CSV body after the header: the ids the import may use up.
DataLines(body) == Len(SplitLines(Trim(body))) - 1

DoCreate == \E u \in Users, b \in {CreatePlain, CreateFull} : nextId < MaxEvents /\ CreateEvent(u, b)
DoList == \E u \in Users, q \in SmallQueries : ListEvents(u, q)
DoGet == \E u \in Users, id \in 0..(MaxEvents - 1) : GetEvent(u, id)
DoUpdate == \E u \in Users, id \in 0..(MaxEvents - 1), p \in SmallPatches : UpdateEvent(u, id, p)
DoDelete == \E u \in Users, id \in 0..(MaxEvents - 1) : DeleteEvent(u, id)
DoImportJson ==
    \E u \in Users, b \in SmallJsonBodies :
        nextId + Len(b.events.a) <= MaxEvents /\ ImportJson(u, b, Reachable)
DoImportCsv ==
    \E u \in Users, b \in SmallCsvBodies : nextId + DataLines(b) <= MaxEvents /\ ImportCsv(u, b, Reachable)
DoPreviewCsv == \E b \in SmallCsvBodies : PreviewCsv("u1", b)

Init == InitEmpty

Next ==
    \/ DoCreate
    \/ DoList
    \/ DoGet
    \/ DoUpdate
    \/ DoDelete
    \/ DoImportJson
    \/ DoImportCsv
    \/ DoPreviewCsv
    \/ Tick

Spec == Init /\ [][Next]_vars

----------------------------------------------------------------------------
(* Claims *)

\* C6: the timestamp normalizer maps a number strictly below 10,000,000,000
\* to the number times 1000 and a number at or above 10,000,000,000 (the
\* boundary included) to itself; a string that resolves to no valid instant
\* makes it throw instead of returning a number.
C6_NormalizerThreshold ==
    resp.op = "parseTimestamp" =>
        LET v == req.value
            r == resp.result
        IN  /\ (v.t = "number" /\ v.n[1] < 10000) =>
                  r.ok /\ r.value = <<v.n[1] * 1000 + (v.n[2] \div 1000), (v.n[2] % 1000) * 1000>>
            /\ (v.t = "number" /\ v.n[1] >= 10000) => r.ok /\ r.value = v.n
            /\ (v.t = "string" /\ v.s # IsoDate) => ~r.ok

C6_Witness ==
    /\ resp.op = "parseTimestamp"
    /\ req.value = JsNum(Num(10000, 0))
    /\ resp.result = Returned(Num(10000, 0))


\* What a CSV import request holds, read off the request alone.
CsvLines(body) == SplitLines(Trim(body))
CsvHeader(body) == parseCSVLine(CsvLines(body)[1])
CsvAccepted(body) ==
    /\ Len(CsvLines(body)) >= 2
    /\ Includes(CsvHeader(body), S("timestamp"))
    /\ Includes(CsvHeader(body), S("event_type"))
CsvColumn(body, i, name) ==
    At(parseCSVLine(Trim(CsvLines(body)[i + 1])), IndexOf(CsvHeader(body), S(name)))
\* The data rows, by 0-based line index (line i is line number i + 1).
CsvDataRows(body) == {i \in 1..(Len(CsvLines(body)) - 1) : Trim(CsvLines(body)[i + 1]) # <<>>}
CsvRowNormalizes(body, i) ==
    /\ parseTimestamp(CsvColumn(body, i, "timestamp")).ok
    /\ CsvColumn(body, i, "event_type").t = "string"
    /\ Truthy(CsvColumn(body, i, "data")) => JSONParse(CsvColumn(body, i, "data").s).ok
    /\ Truthy(CsvColumn(body, i, "tags")) => JSONParse(CsvColumn(body, i, "tags").s).ok
CsvOkRows(body) == {i \in CsvDataRows(body) : CsvRowNormalizes(body, i)}
CsvBadRows(body) == CsvDataRows(body) \ CsvOkRows(body)

JsonOkRecords(body) ==
    {p \in 1..Len(body.events.a) : parseTimestamp(body.events.a[p].timestamp).ok}
JsonBadRecords(body) == (1..Len(body.events.a)) \ JsonOkRecords(body)

CsvServed == req.op = "import_csv" /\ resp.op = "import_csv"
JsonServed == req.op = "import_json" /\ resp.op = "import_json"
PreviewServed == req.op = "preview_csv" /\ resp.op = "preview_csv"

ErrorRefs == {resp.errors[k].ref : k \in 1..Len(resp.errors)}

\* C1: every import report, of a JSON import and of a CSV import alike,
\* satisfies imported + length(errors) = total, blank lines among the data
\* rows included.
C1_ImportedPlusErrorsIsTotal ==
    ((CsvServed \/ JsonServed) /\ resp.status = 200) =>
        resp.imported + Len(resp.errors) = resp.total

\* C2: within one import batch a record that fails stops no other record:
\* every record that normalizes is stored, each failing record adds exactly
\* one entry to errors, and the request reports success.
C2_RowFailuresAreIsolated ==
    /\ (CsvServed /\ CsvAccepted(req.body)) =>
          /\ resp.status = 200
          /\ resp.imported = Cardinality(CsvOkRows(req.body))
          /\ Len(resp.errors) = Cardinality(CsvBadRows(req.body))
          /\ Cardinality({e \in events : e.source = S("csv_import")})
                = Cardinality(CsvOkRows(req.body))
          /\ \A i \in CsvOkRows(req.body) :
                \E e \in events :
                    /\ e.user_id = req.user
                    /\ e.source = S("csv_import")
                    /\ e.event_type = CsvColumn(req.body, i, "event_type").s
                    /\ e.timestamp = parseTimestamp(CsvColumn(req.body, i, "timestamp")).value
    /\ (JsonServed /\ jsonImportSchema(req.json)) =>
          /\ resp.status = 200
          /\ resp.imported = Cardinality(JsonOkRecords(req.json))
          /\ Len(resp.errors) = Cardinality(JsonBadRecords(req.json))
          /\ Cardinality({e \in events : e.source = S("json_import")})
                = Cardinality(JsonOkRecords(req.json))
          /\ \A p \in JsonOkRecords(req.json) :
                \E e \in events :
                    /\ e.user_id = req.user
                    /\ e.source = S("json_import")
                    /\ e.event_type = req.json.events.a[p].event_type.s
                    /\ e.timestamp = parseTimestamp(req.json.events.a[p].timestamp).value

C2_Witness ==
    /\ CsvServed
    /\ req.body = Body(HeaderFull, <<RowData, RowBadData, RowTags>>)
    /\ resp.imported = 2
    /\ resp.total = 3
    /\ Len(resp.errors) = 1
    /\ \E e \in events : e.event_type = S("b") /\ e.source = S("csv_import")

\* C3: every entry of errors carries the 1-based reference of the record
\* that failed: line k + 1 for the k-th data line of a CSV import, and 1 for
\* the first record of a JSON import.
C3_ErrorsCarryOneBasedReference ==
    /\ (CsvServed /\ resp.status = 200) => ErrorRefs = {i + 1 : i \in CsvBadRows(req.body)}
    /\ (JsonServed /\ resp.status = 200) => ErrorRefs = JsonBadRecords(req.json)

\* C4: a CSV import whose header lacks timestamp or event_type fails as a
\* whole and leaves the events table as it was, whatever its data rows hold.
C4_MissingColumnRejectsBatch ==
    [][(resp'.op = "import_csv"
        /\ (~Includes(CsvHeader(req'.body), S("timestamp"))
            \/ ~Includes(CsvHeader(req'.body), S("event_type"))))
       => (resp'.status = 400 /\ events' = events)]_vars

C4_Witness ==
    /\ CsvServed
    /\ req.body = Body(HeaderNoType, <<RowData, RowData>>)
    /\ resp.status = 400
    /\ events # {}

\* C5: every event a CSV import inserts has source csv_import and every event
\* a JSON import inserts has source json_import, whatever source the caller
\* sent; no import stores an event with source manual.
C5_SourceStampedByMode ==
    [][\A e \in events' \ events :
          /\ resp'.op = "import_csv" => e.source = S("csv_import")
          /\ resp'.op = "import_json" => e.source = S("json_import")]_vars

C5_Witness ==
    /\ JsonServed
    /\ req.json = [events |-> JsArr(<<EvIso>>)]
    /\ \E e \in events : e.source = S("json_import") /\ e.event_type = S("b")

\* C7: for a CSV text with a valid header and N data rows, preview returns
\* total_rows = N and exactly min(N, 5) sample rows, the first min(N, 5)
\* data rows in input order.
C7_PreviewSamplesFirstFive ==
    (PreviewServed /\ CsvAccepted(req.body) /\ CsvDataRows(req.body) # {}) =>
        LET n == Cardinality(CsvDataRows(req.body))
        IN  /\ resp.status = 200 /\ resp.valid
            /\ resp.total_rows = n
            /\ Len(resp.preview) = Min(n, 5)

C9_TagsFilterIsIntersection ==
    (req.op = "list" /\ resp.op = "list" /\ Truthy(req.query.tags)) =>
        \A k \in 1..Len(resp.events) :
            /\ resp.events[k].user_id = req.user
            /\ \A i \in 1..Len(TagList(req.query.tags.s)) :
                  \E j \in 1..Len(resp.events[k].tags.a) :
                      resp.events[k].tags.a[j] = JsStr(TagList(req.query.tags.s)[i])

\* C10: a successful update of an owned event sets each supplied field among
\* timestamp, event_type, data and tags to exactly the supplied value (data
\* is replaced as a whole) and leaves the omitted fields of that event, and
\* every other event, unchanged.
C10_UpdateReplacesSuppliedFields ==
    [][(resp'.op = "update" /\ resp'.status = 200) =>
          \E old \in events, new \in events' :
              /\ old.id = req'.id /\ old.user_id = req'.user
              /\ new.id = old.id
              /\ events' \ {new} = events \ {old}
              /\ new.user_id = old.user_id
              /\ new.source = old.source
              /\ new.created_at = old.created_at
              /\ new.timestamp = IF req'.patch.timestamp.t = "undefined" THEN old.timestamp
                                 ELSE req'.patch.timestamp.n
              /\ new.event_type = IF req'.patch.event_type.t = "undefined" THEN old.event_type
                                  ELSE req'.patch.event_type.s
              /\ IF req'.patch.data.t = "undefined" THEN new.data = old.data
                 ELSE new.data # SqlNull /\ JSONParse(new.data) = Returned(req'.patch.data)
              /\ IF req'.patch.tags.t = "undefined" THEN new.tags = old.tags
                 ELSE new.tags # SqlNull /\ JSONParse(new.tags) = Returned(req'.patch.tags)]_vars

C10_Witness ==
    /\ req.op = "update" /\ resp.op = "update" /\ resp.status = 200
    /\ req.patch.data = ObjJ
    /\ req.patch.tags = Undefined
    /\ \E e \in events :
          /\ e.id = req.id
          /\ e.data = Stringify(ObjJ)
          /\ e.tags = Stringify(JsArr(<<JsStr(S("am")), JsStr(S("h"))>>))
    /\ Cardinality(events) = 2

\* C11: an update addressed to an event id that does not exist for the
\* requesting owner is answered NotFound (404) whatever the payload is,
\* valid, malformed or empty, and changes nothing in the store.
C11_UpdateOfAbsentIdIsNotFound ==
    [][(resp'.op = "update" /\ SelectEvent(events, req'.id, req'.user) = {}) =>
          (resp'.status = 404 /\ events' = events)]_vars

\* C12: a get, update or delete of an event or a schema whose id belongs to
\* a record of another owner is answered NotFound (404), the answer an id
\* that exists nowhere gets, and leaves both tables unchanged; list and the
\* types list return only what comes from the requester's own events, and
\* the schema list only the requester's own schemas.
C12_OtherOwnersRecordsAreNotFound ==
    [][/\ (resp'.op \in {"get", "update", "delete"}
            /\ \E e \in events : e.id = req'.id /\ e.user_id # req'.user)
          => (resp'.status = 404 /\ events' = events /\ schemas' = schemas)
       /\ (resp'.op \in {"get_schema", "update_schema", "delete_schema"}
            /\ \E s \in schemas : s.id = req'.id /\ s.user_id # req'.user)
          => (resp'.status = 404 /\ events' = events /\ schemas' = schemas)
       /\ resp'.op = "list"
          => \A i \in 1..Len(resp'.events) :
                \E e \in events : e.user_id = req'.user /\ resp'.events[i] = Decoded(e)
       /\ resp'.op = "types"
          => \A i \in 1..Len(resp'.types) :
                \E e \in events : e.user_id = req'.user /\ resp'.types[i] = e.event_type
       /\ resp'.op = "list_schemas"
          => \A i \in 1..Len(resp'.schemas) :
                \E s \in schemas : s.user_id = req'.user /\ resp'.schemas[i] = DecodedSchema(s)
      ]_vars

\* C13: a schema create with a well-formed body fails with the conflict
\* error and inserts nothing when the requesting owner already has a schema
\* of that name; otherwise, also when only another owner has a schema of
\* that name, it succeeds and inserts exactly that schema.
C13_SchemaNameConflictIsPerOwner ==
    [][(resp'.op = "create_schema" /\ createSchemaSchema(req'.schema)) =>
          IF \E s \in schemas : s.user_id = req'.user /\ s.name = req'.schema.name.s
          THEN /\ resp'.status = 400
               /\ resp'.error = "Schema with this name already exists"
               /\ schemas' = schemas
          ELSE /\ resp'.status = 201
               /\ \E s \in schemas' :
                     /\ s \notin schemas
                     /\ schemas' = schemas \cup {s}
                     /\ s.user_id = req'.user
                     /\ s.name = req'.schema.name.s
                     /\ s.id = resp'.schema.id]_vars

C13_Witness ==
    /\ req.op = "create_schema" /\ resp.op = "create_schema"
    /\ resp.status = 400 /\ resp.error = "Schema with this name already exists"
    /\ \E s1, s2 \in schemas :
          /\ s1.name = req.schema.name.s /\ s2.name = s1.name
          /\ s1.user_id = req.user /\ s2.user_id # req.user

\* C14: no schema-registry operation (create, update, delete) changes any
\* stored event, and the event routes do not depend on the registry: a
\* well-formed event create is answered 201 and inserts the event, and an
\* import stores every row that normalizes, whether or not the owner has a
\* schema named like the event type; neither changes the registry.
C14_RegistryAndEventsAreIndependent ==
    [][/\ resp'.op \in {"create_schema", "update_schema", "delete_schema"} => events' = events
       /\ (resp'.op = "create" /\ createEventSchema(req'.event)) =>
             /\ resp'.status = 201
             /\ schemas' = schemas
             /\ \E e \in events' :
                   /\ e \notin events /\ events' = events \cup {e}
                   /\ e.user_id = req'.user /\ e.event_type = req'.event.event_type.s
       /\ resp'.op = "import_csv" =>
             /\ resp'.status = 200 /\ schemas' = schemas
             /\ resp'.imported = Cardinality(CsvOkRows(req'.body))
             /\ Cardinality(events' \ events) = resp'.imported
       /\ resp'.op = "import_json" =>
             /\ resp'.status = 200 /\ schemas' = schemas
             /\ resp'.imported = Cardinality(JsonOkRecords(req'.json))
             /\ Cardinality(events' \ events) = resp'.imported]_vars

\* A schema was deleted while an event of its owner has the schema's name as
\* its type (every schema is named "a"), and the event is still stored.
C14_Witness ==
    /\ req.op = "delete_schema" /\ resp.op = "delete_schema" /\ resp.status = 200
    /\ \E e \in events : e.user_id = req.user /\ e.event_type = S("a")
    /\ \A s \in schemas : s.user_id # req.user

\* C15: when an insert of an import throws because the database cannot be
\* reached, the import request ends in one top-level failure: no response
\* reports success (200) while its errors list holds that failure as a row
\* entry.
C15_StoreFailureIsTopLevel ==
    ((CsvServed \/ JsonServed) /\ resp.status = 200) =>
        \A k \in 1..Len(resp.errors) : resp.errors[k].message # "D1_ERROR"

\* C16: across every step of create, import, update and delete, an event
\* that stays stored keeps its id, owner, source and created_at, also when
\* the update payload carries these keys; an inserted event gets an id no
\* stored event has.
C16_InsertionFieldsAreImmutable ==
    [][/\ \A old \in events, new \in events' :
             new.id = old.id =>
                 /\ new.user_id = old.user_id
                 /\ new.source = old.source
                 /\ new.created_at = old.created_at
       /\ \A e1, e2 \in events' : e1.id = e2.id => e1 = e2]_vars

C16_Witness ==
    /\ req.op = "update" /\ resp.op = "update" /\ resp.status = 200
    /\ req.patch = PatchForeignKeys
    /\ clock = 1
    /\ \E e \in events :
          /\ e.id = req.id /\ e.id = 0 /\ e.user_id = "u1"
          /\ e.event_type = S("c")
          /\ e.source = S("csv_import")
          /\ e.created_at = Num(1700000, 0)

\* C17: the tags of every stored event form a set: after create, update or
\* import, also with a tags list that repeats a string, no string occurs
\* twice in the stored tags.
C17_StoredTagsHoldNoDuplicate ==
    \A e \in events :
        e.tags # SqlNull =>
            LET tags == JSONParse(e.tags).value.a
            IN  \A i, j \in 1..Len(tags) : i # j => tags[i] # tags[j]

\* C18: every event stored by the text import has data that is an object or
\* absent and tags that is an array or absent: a data or tags cell that
\* decodes to any other JSON value is a row error and stores nothing.
C18_CsvCellsAreObjectAndArray ==
    \A e \in events :
        e.source = CsvSource =>
            /\ e.data = SqlNull \/ JSONParse(e.data).value.t = "object"
            /\ e.tags = SqlNull \/ JSONParse(e.tags).value.t = "array"

\* The commas of a line that lie outside double quotes: those with an even
\* number of quote characters before them.
OutsideCommas(line) ==
    {i \in 1..Len(line) :
        /\ line[i] = ","
        /\ Cardinality({j \in 1..(i - 1) : line[j] = "\""}) % 2 = 0}

\* The text between the (k-1)-th and the k-th outside comma of a line.
RawField(line, k) ==
    LET at == OutsideCommas(line)
        cut(n) == IF n = 0 THEN 0
                  ELSE IF n > Cardinality(at) THEN Len(line) + 1
                  ELSE CHOOSE i \in at : Cardinality({j \in at : j < i}) = n - 1
    IN  SubSeq(line, cut(k - 1) + 1, cut(k) - 1)

\* A text with every quote character written twice, and the reverse reading.
RECURSIVE DoubleQuotes(_)
DoubleQuotes(s) ==
    IF s = <<>> THEN <<>>
    ELSE (IF Head(s) = "\"" THEN <<"\"", "\"">> ELSE <<Head(s)>>) \o DoubleQuotes(Tail(s))

RECURSIVE SingleQuotes(_)
SingleQuotes(s) ==
    IF s = <<>> THEN <<>>
    ELSE IF Len(s) >= 2 /\ s[1] = "\"" /\ s[2] = "\""
         THEN <<"\"">> \o SingleQuotes(SubSeq(s, 3, Len(s)))
         ELSE <<Head(s)>> \o SingleQuotes(Tail(s))

\* field is raw without its surrounding whitespace.
Stripped(raw, field) ==
    /\ field # <<>> => ~IsSpace(field[1]) /\ ~IsSpace(field[Len(field)])
    /\ \E p \in 0..(Len(raw) - Len(field)) :
          /\ SubSeq(raw, p + 1, p + Len(field)) = field
          /\ \A i \in 1..Len(raw) : (i <= p \/ i > p + Len(field)) => IsSpace(raw[i])

\* raw is a quoted field: wrapping quotes around a text in which every quote
\* character is doubled and which has no whitespace at its ends.
IsQuotedField(raw) ==
    /\ Len(raw) >= 2
    /\ raw[1] = "\"" /\ raw[Len(raw)] = "\""
    /\ LET inner == SubSeq(raw, 2, Len(raw) - 1)
       IN  /\ DoubleQuotes(SingleQuotes(inner)) = inner
           /\ Trim(inner) = inner

MalformedShape(body) ==
    \/ body.events.t # "array"
    \/ \E i \in 1..Len(body.events.a) :
          LET e == body.events.a[i]
          IN  \/ e.timestamp.t = "undefined"
              \/ e.event_type.t = "undefined"
              \/ e.event_type = JsStr(<<>>)
              \/ e.data.t \notin {"undefined", "object"}
              \/ /\ e.tags.t # "undefined"
                 /\ e.tags.t # "array" \/ \E k \in 1..Len(e.tags.a) : e.tags.a[k].t # "string"

\* C20: a structured import request of malformed shape is rejected as a
\* whole before any row runs: it is answered 400 and the events table is what
\* it was, the well-formed records before the malformed one included.
C20_MalformedBatchIsRejectedWhole ==
    [][(resp'.op = "import_json" /\ MalformedShape(req'.json)) =>
          /\ resp'.status = 400
          /\ events' = events
          /\ nextId' = nextId]_vars

C20_Witness ==
    /\ resp.op = "import_json" /\ resp.status = 400
    /\ req.json.events.t = "array"
    /\ req.json.events.a = <<EvIso, EvIso, EvEmptyType>>
    /\ \E e \in events : e.user_id = req.user

\* C21: the name of a stored schema never changes: whatever a step does, an
\* update with a payload that carries a name included, a schema that is still
\* stored keeps its name.
C21_SchemaNameIsImmutable ==
    [][\A old \in schemas, new \in schemas' : new.id = old.id => new.name = old.name]_vars

C21_Witness ==
    /\ req.op = "update_schema" /\ resp.op = "update_schema" /\ resp.status = 200
    /\ req.patch.name = JsStr(S("z"))
    /\ \E row \in schemas :
          /\ row.id = req.id /\ row.user_id = req.user
          /\ row.label = S("L")
          /\ row.name # S("z")

\* C22: preview marks a data row with a row error if and only if the text
\* import of the same input records an error for that row.
C22_PreviewAndImportAgreeOnRowErrors ==
    (resp.op = "preview_csv" /\ resp.status = 200 /\ resp.valid) =>
        \A imported \in {importCsv(req.user, req.body, events, nextId, Now, Reachable).response} :
            \A k \in 1..Len(resp.preview) :
                (resp.preview[k].error.t # "undefined")
                    <=> \E j \in 1..Len(imported.errors) :
                            imported.errors[j].ref = resp.preview[k].line

\* C23: when list is called with start and/or end, 0 included, every
\* returned event has start <= timestamp and timestamp <= end.
C23_ListedEventsAreInRange ==
    resp.op = "list" =>
        \A i \in 1..Len(resp.events) :
            /\ req.query.start.t # "undefined" =>
                  NumLe(req.query.start.n, resp.events[i].timestamp)
            /\ req.query.end.t # "undefined" =>
                  NumLe(resp.events[i].timestamp, req.query.end.n)

\* C24: under every interleaving of concurrent schema creates, at most one
\* schema is stored per (owner, name), and a well-formed request that did not
\* insert its schema ends with the conflict answer.
C24_RacingCreatesEndInConflict ==
    /\ \A r1, r2 \in schemas : (r1.user_id = r2.user_id /\ r1.name = r2.name) => r1 = r2
    /\ \A c \in DOMAIN calls :
          (/\ calls[c].op = "create_schema" /\ calls[c].pc = "done"
           /\ createSchemaSchema(calls[c].body)
           /\ calls[c].response.status # 201)
              => /\ calls[c].response.status = 400
                 /\ calls[c].response.error = "Schema with this name already exists"

\* C25: delete of an owned event id answers success and removes exactly that
\* event; delete of an absent id answers NotFound and changes nothing; after
\* a successful delete, get, update and delete of that id answer NotFound.
C25_DeleteRemovesExactlyTheEvent ==
    [][/\ req'.op = "delete" =>
             LET owned == {e \in events : e.id = req'.id /\ e.user_id = req'.user}
             IN  /\ events' = events \ owned
                 /\ Cardinality(owned) <= 1
                 /\ resp'.status = IF owned # {} THEN 200 ELSE 404
       /\ (/\ req.op = "delete" /\ resp.status = 200
           /\ req'.op \in {"get", "update", "delete"}
           /\ req'.id = req.id /\ req'.user = req.user)
              => resp'.status = 404 /\ events' = events]_vars

\* C26: a timestamp placed in a CSV timestamp cell is stored as the same
\* epoch-millisecond value as the same timestamp submitted in a structured
\* batch, whichever encoding it is in.
C26_TextAndBatchStoreTheSameInstant ==
    \A e1, e2 \in events :
        (e1.source = CsvSource /\ e2.source = JsonSource /\ e1.event_type = e2.event_type)
            => e1.timestamp = e2.timestamp

\* C27: every stored event has a non-empty event_type, whichever path
\* inserted or changed it.
C27_StoredEventTypeIsNonEmpty ==
    \A e \in events : e.event_type # <<>>

\* C28: an event update with a well-formed payload that names a field is
\* answered NotFound or with the complete stored event, carrying its id and
\* owner, also when the event is deleted between the statements of the update.
C28_UpdateAnswersNotFoundOrTheEvent ==
    \A c \in DOMAIN calls :
        (/\ calls[c].op = "update" /\ calls[c].pc = "done"
         /\ updateEventSchema(calls[c].body)
         /\ \E f \in {"timestamp", "event_type", "data", "tags"} : calls[c].body[f].t # "undefined")
            => \/ calls[c].response.status = 404
               \/ /\ calls[c].response.status = 200
                  /\ {"id", "user_id"} \subseteq DOMAIN calls[c].response.event
                  /\ calls[c].response.event.id = calls[c].id
                  /\ calls[c].response.event.user_id = calls[c].user

\* C29: a request to an events, schemas or import route that carries no
\* session, an unknown session id, or a session whose expires_at is not in
\* the future is answered Unauthorized and changes no stored event or schema.
C29_NoLiveSessionIsUnauthorized ==
    [][(/\ resp = NoResp /\ "cookie" \in DOMAIN req
        /\ ~(/\ req.cookie.t = "string"
             /\ \E s \in sessions : s.id = req.cookie.s /\ NumLt(Now, s.expires_at)))
          => /\ resp'.status = 401
             /\ events' = events
             /\ schemas' = schemas]_vars

C29_Witness ==
    /\ resp = Unauthorized("create")
    /\ req.op = "create" /\ req.cookie = JsStr(SessionSoon.id)
    /\ clock = 1
    /\ events # {}

\* C30: once a reset-password request has answered success for a user, no
\* session of that user that was stored when the request arrived
\* authenticates a request, and a reset attempt with the token it used finds
\* no token and is rejected.
C30_ResetRevokesSessionsAndToken ==
    \A c \in DOMAIN calls :
        (/\ calls[c].op = "reset_password" /\ calls[c].pc = "done"
         /\ calls[c].response.status = 200)
        => /\ \A s \in calls[c].before :
                s.user_id = calls[c].body.tokenRecord.user_id
                => authMiddleware(JsStr(s.id), sessions, Now) = {}
           /\ selectResetToken(calls[c].body.token.s, tokens, Now) = {}
C30_Witness ==
    \E c \in DOMAIN calls :
        /\ calls[c].op = "reset_password" /\ calls[c].pc = "done"
        /\ calls[c].response.status = 200
        /\ \E s \in calls[c].before : s.user_id = calls[c].body.tokenRecord.user_id
        /\ req.op = "me" /\ resp = Unauthorized("me")
        /\ \E s \in calls[c].before :
              s.user_id = calls[c].body.tokenRecord.user_id /\ req.cookie = JsStr(s.id)
====
